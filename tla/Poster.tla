------------------------------- MODULE Poster -------------------------------
(***************************************************************************)
(* The poster generator: Generate, drawCard and downloadAvatar, run by the *)
(* goroutines of the monthly job with the one Generator main makes.        *)
(*                                                                         *)
(* Each goroutine draws on a canvas of its own, but all of them with the   *)
(* same five font faces.  DrawString has the face render each glyph into   *)
(* its mask and copies it from there to the canvas.  Mask, glyph buffer,   *)
(* rasterizer and glyph cache belong to the face, and no lock guards them. *)
(* When two goroutines are in one face at a time, what either copies may   *)
(* be its text, the other's, or glyphs torn, missing or out of place; a    *)
(* torn glyph may stay in the cache; and the rasterizer may panic, which   *)
(* ends the process.                                                       *)
(*                                                                         *)
(* Goroutines that follow each other in a face see what the one before has *)
(* written: the binary is built for amd64 (Dockerfile), which keeps the    *)
(* order of a core's stores.                                               *)
(***************************************************************************)
EXTENDS Naturals, Sequences, FiniteSets

CONSTANTS
    Users,
    Slots,     \* goroutines that may draw at a time, over all runs
    NoOne      \* whose text it is if it is the same on every poster

VARIABLES
    stage,     \* where each goroutine is in Generate
    pos,       \* the text it draws next, or is drawing
    canvas,    \* the texts on each canvas
    mask,      \* the text last rendered by each face
    met        \* the faces two goroutines have been in at a time

vars == <<stage, pos, canvas, mask, met>>

-----------------------------------------------------------------------------
(***************************************************************************)
(* What Generate draws.                                                    *)
(***************************************************************************)

Faces == {"boldSM", "boldMD", "boldLG", "boldXL", "regSM"}

Drawn(face, item) == [face |-> face, item |-> item]

\* drawCard.  The subtitles name the month, which is that of the run.
Card(value) ==
    <<Drawn("boldSM", "label"), Drawn("boldLG", value), Drawn("regSM", "subtitle")>>

Header == <<Drawn("boldSM", "title"), Drawn("boldXL", "month"),
            Drawn("boldMD", "login"), Drawn("regSM", "poweredBy")>>

\* In the place of the avatar.
Initials == Drawn("boldLG", "initials")

Profile == <<Drawn("boldMD", "name"), Drawn("regSM", "login")>>

Footer == <<Drawn("boldSM", "footer"), Drawn("boldSM", "generated")>>

Texts ==
    Header \o <<Initials>> \o Profile
    \o Card("commits") \o Card("repos") \o Card("contributions") \o Card("growth")
    \o Footer

AvatarAt == Len(Header) + 1

OwnItems == {"login", "initials", "name", "commits", "repos", "contributions", "growth"}

\* The text at place i on the poster of u.
TextOf(u, i) ==
    [item |-> Texts[i].item, of |-> IF Texts[i].item \in OwnItems THEN u ELSE NoOne]

NoText == [item |-> "none", of |-> NoOne]

\* Glyphs nobody has asked for.
Torn == [item |-> "torn", of |-> NoOne]

Text == [item : {Texts[i].item : i \in DOMAIN Texts} \cup {"none", "torn"},
         of : Users \cup {NoOne}]

Working == {"drawing", "copying", "drawn"}

TypeOK ==
    /\ stage \in [Users -> Working \cup {"waiting", "encoded", "failed", "died"}]
    /\ pos \in [Users -> 1 .. Len(Texts) + 1]
    /\ canvas \in [Users -> SUBSET ((1 .. Len(Texts)) \X Text)]
    /\ mask \in [Faces -> Text]
    /\ met \subseteq Faces

Init ==
    /\ stage = [u \in Users |-> "waiting"]
    /\ pos = [u \in Users |-> 1]
    /\ canvas = [u \in Users |-> {}]
    /\ mask = [f \in Faces |-> NoText]
    /\ met = {}

-----------------------------------------------------------------------------

Goes(u, from, to) ==
    /\ stage[u] = from
    /\ stage' = [stage EXCEPT ![u] = to]

\* v is in DrawString with face f.
InFace(v, f) == stage[v] = "copying" /\ Texts[pos[v]].face = f

Meets(u, f) == \E v \in Users \ {u} : InFace(v, f)

\* A goroutine with a slot calls Generate: a new canvas.
Begin(u) ==
    /\ Cardinality({v \in Users : stage[v] \in Working}) < Slots
    /\ Goes(u, "waiting", "drawing")
    /\ UNCHANGED <<pos, canvas, mask, met>>

\* SetFontFace, DrawString: the face renders the text into its mask, where it
\* stays, or not, if another text is rendered or copied meanwhile.
RenderGlyphs(u) ==
    LET face == Texts[pos[u]].face IN
    /\ pos[u] <= Len(Texts)
    /\ Goes(u, "drawing", "copying")
    /\ \E text \in {TextOf(u, pos[u])} \cup (IF Meets(u, face) THEN {mask[face]} ELSE {}) :
          mask' = [mask EXCEPT ![face] = text]
    /\ met' = met \cup (IF Meets(u, face) THEN {face} ELSE {})
    /\ UNCHANGED <<pos, canvas>>

\* What is in the mask is copied to the canvas.  In a face where goroutines have
\* met, each glyph may be right, the one rendered last, or torn.
CopyMask(u) ==
    LET face == Texts[pos[u]].face IN
    /\ Goes(u, "copying", IF pos[u] = Len(Texts) THEN "drawn" ELSE "drawing")
    /\ \E text \in {mask[face]}
                   \cup (IF face \in met THEN {TextOf(u, pos[u]), Torn} ELSE {}) :
          canvas' = [canvas EXCEPT ![u] = @ \cup {<<pos[u], text>>}]
    /\ pos' = [pos EXCEPT ![u] = @ + 1]
    /\ UNCHANGED <<mask, met>>

\* An index out of range in the shared buffers: nothing recovers it, and all
\* that are not done die with the process.
Panic(u) ==
    /\ stage[u] = "copying" /\ Meets(u, Texts[pos[u]].face)
    /\ stage' = [v \in Users |-> IF stage[v] \in {"encoded", "failed"} THEN stage[v] ELSE "died"]
    /\ UNCHANGED <<pos, canvas, mask, met>>

\* downloadAvatar came back with a picture: no initials are drawn.
DrawAvatar(u) ==
    /\ stage[u] = "drawing" /\ pos[u] = AvatarAt
    /\ pos' = [pos EXCEPT ![u] = @ + 1]
    /\ UNCHANGED <<stage, canvas, mask, met>>

EncodePNG(u) ==
    /\ Goes(u, "drawn", "encoded") \/ Goes(u, "drawn", "failed")
    /\ UNCHANGED <<pos, canvas, mask, met>>

Next ==
    \E u \in Users :
        \/ Begin(u) \/ RenderGlyphs(u) \/ CopyMask(u) \/ Panic(u)
        \/ DrawAvatar(u) \/ EncodePNG(u)

Spec == Init /\ [][Next]_vars

-----------------------------------------------------------------------------

\* generator.go:56-63, README.md:120-126.  A user's poster shows the name, login
\* and figures of no other user, although all are drawn with the same faces.
PosterShowsOwnReport ==
    \A u \in Users : \A drawn \in canvas[u] : drawn[2].of \in {u, NoOne}

-----------------------------------------------------------------------------

\* generator.go:56-63.  A wrong text on a poster, finished or not, is of a face
\* that two goroutines have been in at a time: however many draw, the damage
\* stays in the faces they met in.
WrongOnlyWhereTheyMet ==
    \A u \in Users : \A drawn \in canvas[u] :
        drawn[2] # TextOf(u, drawn[1]) => Texts[drawn[1]].face \in met

\* Whoever is in a face where none have met is alone in it, and the face's mask
\* holds the text being drawn.
AloneUnlessMet ==
    \A u \in Users : stage[u] = "copying" =>
        /\ pos[u] <= Len(Texts)
        /\ Texts[pos[u]].face \notin met =>
              /\ mask[Texts[pos[u]].face] = TextOf(u, pos[u])
              /\ ~Meets(u, Texts[pos[u]].face)

IInv == TypeOK /\ AloneUnlessMet /\ WrongOnlyWhereTheyMet
=============================================================================
