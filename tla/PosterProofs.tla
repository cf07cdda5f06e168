---------------------------- MODULE PosterProofs ----------------------------
(***************************************************************************)
(* Proofs about Poster, for any number of goroutines that draw at a time:  *)
(* a poster can be wrong only in the texts of a face where two of them met.*)
(***************************************************************************)
EXTENDS Poster, TLAPS

\* The texts, by what the proofs need of them.
LEMMA TextsFacts ==
    /\ Len(Texts) \in Nat \ {0}
    /\ DOMAIN Texts = 1 .. Len(Texts)
    /\ AvatarAt \in 1 .. Len(Texts)
    /\ \A i \in 1 .. Len(Texts) : Texts[i].face \in Faces
BY DEF Texts, Header, Initials, Profile, Card, Footer, Drawn, Faces, AvatarAt

\* A text is one of the poster, of its user or of no one.
LEMMA TextOfType ==
    ASSUME NEW u \in Users, NEW i \in 1 .. Len(Texts)
    PROVE  TextOf(u, i) \in Text
BY TextsFacts DEF TextOf, Text

\* Nobody's text is no text of the poster.
LEMMA NoTextOfType == NoText \in Text /\ Torn \in Text
BY DEF NoText, Torn, Text

\* Nothing is drawn at first.
LEMMA IInvInit == Init => IInv
<1> SUFFICES ASSUME Init PROVE IInv
  OBVIOUS
<1>1. TypeOK
  BY TextsFacts, NoTextOfType DEF Init, TypeOK
<1>2. AloneUnlessMet /\ WrongOnlyWhereTheyMet
  BY DEF Init, AloneUnlessMet, WrongOnlyWhereTheyMet
<1> QED
  BY <1>1, <1>2 DEF IInv

\* A step that leaves mask, canvases and meetings alone and brings nobody into a
\* face keeps the invariant, if it moves nobody who is in one.
LEMMA OutsideFaces ==
    ASSUME IInv, TypeOK', UNCHANGED <<mask, canvas, met>>,
           \A v \in Users : stage'[v] = "copying" => stage[v] = "copying" /\ pos'[v] = pos[v]
    PROVE  IInv'
<1>1. WrongOnlyWhereTheyMet'
  BY DEF IInv, WrongOnlyWhereTheyMet, TextOf
<1>2. \A v \in Users, f \in Faces : InFace(v, f)' => InFace(v, f)
  BY DEF InFace
<1>3. ASSUME NEW v \in Users, stage'[v] = "copying"
      PROVE  /\ pos'[v] <= Len(Texts)
             /\ Texts[pos'[v]].face \notin met' =>
                   /\ mask'[Texts[pos'[v]].face] = TextOf(v, pos'[v])
                   /\ ~Meets(v, Texts[pos[v]].face)'
  <2>1. /\ stage[v] = "copying" /\ pos'[v] = pos[v] /\ pos[v] <= Len(Texts)
        /\ Texts[pos[v]].face \notin met =>
              /\ mask[Texts[pos[v]].face] = TextOf(v, pos[v])
              /\ ~Meets(v, Texts[pos[v]].face)
    BY <1>3 DEF IInv, AloneUnlessMet
  <2>2. Texts[pos[v]].face \in Faces
    BY <2>1, TextsFacts DEF IInv, TypeOK
  <2>3. ~Meets(v, Texts[pos[v]].face) => ~Meets(v, Texts[pos[v]].face)'
    BY <1>2, <2>1, <2>2 DEF Meets, InFace
  <2> QED
    BY <2>1, <2>3
<1>4. AloneUnlessMet'
  BY <1>3 DEF AloneUnlessMet, Meets, InFace
<1> QED
  BY <1>1, <1>4 DEF IInv

\* Begin, Panic, DrawAvatar, EncodePNG: nothing is done with a face.
LEMMA OtherSteps ==
    ASSUME IInv, NEW u \in Users, Begin(u) \/ Panic(u) \/ DrawAvatar(u) \/ EncodePNG(u)
    PROVE  IInv'
<1>1. CASE Begin(u)
  <2>1. TypeOK' /\ \A v \in Users : stage'[v] = "copying" => stage[v] = "copying"
    BY <1>1 DEF IInv, TypeOK, Begin, Goes, Working
  <2> QED
    BY <1>1, <2>1, OutsideFaces DEF Begin
<1>2. CASE Panic(u)
  <2>1. TypeOK' /\ \A v \in Users : stage'[v] # "copying"
    BY <1>2 DEF IInv, TypeOK, Panic, Working
  <2> QED
    BY <1>2, <2>1, OutsideFaces DEF Panic
<1>3. CASE DrawAvatar(u)
  <2>1. stage[u] = "drawing" /\ pos[u] \in 1 .. Len(Texts)
    BY <1>3, TextsFacts DEF DrawAvatar
  <2>2. TypeOK' /\ \A v \in Users : stage'[v] = "copying" => stage[v] = "copying" /\ pos'[v] = pos[v]
    BY <1>3, <2>1, TextsFacts DEF IInv, TypeOK, DrawAvatar
  <2> QED
    BY <1>3, <2>2, OutsideFaces DEF DrawAvatar
<1>4. CASE EncodePNG(u)
  <2>1. TypeOK' /\ \A v \in Users : stage'[v] = "copying" => stage[v] = "copying"
    BY <1>4 DEF IInv, TypeOK, EncodePNG, Goes, Working
  <2> QED
    BY <1>4, <2>1, OutsideFaces DEF EncodePNG
<1> QED
  BY <1>1, <1>2, <1>3, <1>4

\* RenderGlyphs: either the face was empty, and its mask is now the goroutine's
\* own, or the two that meet are noted.
LEMMA RenderStep ==
    ASSUME IInv, NEW u \in Users, RenderGlyphs(u)
    PROVE  IInv'
<1> DEFINE face == Texts[pos[u]].face
           own == TextOf(u, pos[u])
<1>1. stage[u] = "drawing" /\ pos[u] \in 1 .. Len(Texts) /\ face \in Faces /\ own \in Text
  BY TextsFacts, TextOfType DEF IInv, TypeOK, RenderGlyphs, Goes
<1>2. PICK text : /\ text \in {own} \cup (IF Meets(u, face) THEN {mask[face]} ELSE {})
                  /\ mask' = [mask EXCEPT ![face] = text]
  BY DEF RenderGlyphs
<1> HIDE DEF face, own
<1>3. /\ \A v \in Users : stage'[v] = IF v = u THEN "copying" ELSE stage[v]
      /\ \A f \in Faces : mask'[f] = IF f = face THEN text ELSE mask[f]
      /\ met' = met \cup (IF Meets(u, face) THEN {face} ELSE {})
      /\ UNCHANGED <<pos, canvas>>
  BY <1>1, <1>2 DEF IInv, TypeOK, RenderGlyphs, Goes, face
<1>4. TypeOK'
  <2>1. text \in Text
    BY <1>1, <1>2 DEF IInv, TypeOK
  <2>2. stage' \in [Users -> Working \cup {"waiting", "encoded", "failed", "died"}]
    BY DEF IInv, TypeOK, RenderGlyphs, Goes, Working
  <2>3. mask' \in [Faces -> Text]
    BY <1>2, <2>1 DEF IInv, TypeOK
  <2> QED
    BY <1>1, <1>3, <2>2, <2>3 DEF IInv, TypeOK
<1>5. WrongOnlyWhereTheyMet'
  BY <1>3 DEF IInv, WrongOnlyWhereTheyMet, TextOf
<1>6. \A v \in Users, f \in Faces : InFace(v, f)' => InFace(v, f) \/ (v = u /\ f = face)
  BY <1>3 DEF InFace, face
<1>7. ASSUME NEW v \in Users, stage'[v] = "copying"
      PROVE  /\ pos[v] <= Len(Texts)
             /\ Texts[pos[v]].face \notin met' =>
                   /\ mask'[Texts[pos[v]].face] = TextOf(v, pos[v])
                   /\ ~Meets(v, Texts[pos[v]].face)'
  <2>1. CASE v = u
    <3>1. face \notin met' => ~Meets(u, face) /\ text = own
      BY <1>2, <1>3
    <3>2. ~Meets(u, face) => ~Meets(u, face)'
      BY <1>1, <1>3, <1>6 DEF Meets, face
    <3> QED
      BY <1>1, <1>3, <2>1, <3>1, <3>2 DEF face, own
  <2>2. CASE v # u
    <3> DEFINE g == Texts[pos[v]].face
    <3>1. /\ stage[v] = "copying" /\ pos[v] <= Len(Texts)
          /\ g \notin met => mask[g] = TextOf(v, pos[v]) /\ ~Meets(v, g)
      BY <1>3, <1>7, <2>2 DEF IInv, AloneUnlessMet
    <3>2. g \in Faces
      BY <3>1, TextsFacts DEF IInv, TypeOK
    <3>3. g = face => Meets(u, face)
      BY <2>2, <3>1 DEF Meets, InFace
    <3> HIDE DEF g
    <3>4. g \notin met' => g # face /\ g \notin met
      BY <1>3, <3>3
    <3>5. g # face /\ ~Meets(v, g) => ~Meets(v, g)'
      BY <1>3, <1>6, <3>2 DEF Meets, g
    <3>6. g \notin met' => mask'[g] = TextOf(v, pos[v]) /\ ~Meets(v, g)'
      BY <1>3, <3>1, <3>2, <3>4, <3>5
    <3> QED
      BY <3>1, <3>6 DEF g
  <2> QED
    BY <2>1, <2>2
<1>8. AloneUnlessMet'
  BY <1>3, <1>7 DEF AloneUnlessMet, Meets, InFace, TextOf
<1> QED
  BY <1>4, <1>5, <1>8 DEF IInv

\* CopyMask: where none have met, what is copied is the goroutine's own text.
LEMMA CopyStep ==
    ASSUME IInv, NEW u \in Users, CopyMask(u)
    PROVE  IInv'
<1> DEFINE face == Texts[pos[u]].face
<1>1. stage[u] = "copying"
  BY DEF CopyMask, Goes
<1>2. /\ pos[u] \in 1 .. Len(Texts) /\ face \in Faces
      /\ face \notin met => mask[face] = TextOf(u, pos[u])
  BY <1>1, TextsFacts DEF IInv, TypeOK, AloneUnlessMet
<1>3. PICK text : /\ text \in {mask[face]}
                        \cup (IF face \in met THEN {TextOf(u, pos[u]), Torn} ELSE {})
                  /\ canvas' = [canvas EXCEPT ![u] = @ \cup {<<pos[u], text>>}]
  BY DEF CopyMask
<1> HIDE DEF face
<1>4. text \in Text /\ (text # TextOf(u, pos[u]) => face \in met)
  BY <1>2, <1>3, TextOfType, NoTextOfType DEF IInv, TypeOK
<1>5. /\ \A v \in Users : stage'[v] = "copying" => v # u /\ stage[v] = "copying"
      /\ \A v \in Users : v # u => pos'[v] = pos[v]
      /\ \A v \in Users : canvas'[v] = IF v = u THEN canvas[u] \cup {<<pos[u], text>>} ELSE canvas[v]
      /\ UNCHANGED <<mask, met>>
  BY <1>3 DEF IInv, TypeOK, CopyMask, Goes
<1>6. TypeOK'
  <2>1. stage' \in [Users -> Working \cup {"waiting", "encoded", "failed", "died"}]
    BY DEF IInv, TypeOK, CopyMask, Goes, Working
  <2>2. pos' \in [Users -> 1 .. Len(Texts) + 1]
    BY <1>2, TextsFacts DEF IInv, TypeOK, CopyMask
  <2>3. canvas' \in [Users -> SUBSET ((1 .. Len(Texts)) \X Text)]
    BY <1>2, <1>3, <1>4 DEF IInv, TypeOK
  <2> QED
    BY <1>5, <2>1, <2>2, <2>3 DEF IInv, TypeOK
<1>7. WrongOnlyWhereTheyMet'
  <2>1. \A v \in Users : \A d \in canvas'[v] :
            d[2] # TextOf(v, d[1]) => Texts[d[1]].face \in met
    BY <1>4, <1>5 DEF IInv, WrongOnlyWhereTheyMet, face
  <2> QED
    BY <1>5, <2>1 DEF WrongOnlyWhereTheyMet, TextOf
<1>8. AloneUnlessMet'
  <2>1. \A v \in Users, f \in Faces : InFace(v, f)' => InFace(v, f)
    BY <1>5 DEF InFace
  <2>2. ASSUME NEW v \in Users, stage'[v] = "copying"
        PROVE  /\ pos'[v] <= Len(Texts)
               /\ Texts[pos'[v]].face \notin met =>
                     /\ mask[Texts[pos'[v]].face] = TextOf(v, pos'[v])
                     /\ ~Meets(v, Texts[pos[v]].face)'
    <3>1. /\ pos'[v] = pos[v] /\ pos[v] <= Len(Texts)
          /\ Texts[pos[v]].face \notin met =>
                /\ mask[Texts[pos[v]].face] = TextOf(v, pos[v])
                /\ ~Meets(v, Texts[pos[v]].face)
      BY <1>5, <2>2 DEF IInv, AloneUnlessMet
    <3>2. Texts[pos[v]].face \in Faces
      BY <3>1, TextsFacts DEF IInv, TypeOK
    <3>3. ~Meets(v, Texts[pos[v]].face) => ~Meets(v, Texts[pos[v]].face)'
      BY <2>1, <2>2, <3>1, <3>2 DEF Meets, InFace
    <3> QED
      BY <3>1, <3>3
  <2> QED
    BY <1>5, <2>2 DEF AloneUnlessMet, Meets, InFace, TextOf
<1> QED
  BY <1>6, <1>7, <1>8 DEF IInv

\* generator.go:56-63.  However many goroutines draw, over however many runs: a
\* poster has a wrong text only in a face that two of them have been in at a time.
THEOREM WrongOnlyWhereTheyMetHolds == Spec => []WrongOnlyWhereTheyMet
<1>1. ASSUME IInv, [Next]_vars PROVE IInv'
  <2>1. CASE UNCHANGED vars
    <3>1. TypeOK' /\ \A v \in Users : stage'[v] = stage[v] /\ pos'[v] = pos[v]
      BY <1>1, <2>1 DEF IInv, TypeOK, vars
    <3> QED
      BY <1>1, <2>1, <3>1, OutsideFaces DEF vars
  <2> QED
    BY <1>1, <2>1, OtherSteps, RenderStep, CopyStep DEF Next
<1>2. IInv => WrongOnlyWhereTheyMet
  BY DEF IInv
<1> QED
  BY IInvInit, <1>1, <1>2, PTL DEF Spec
=============================================================================
