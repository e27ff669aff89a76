------------------------------ MODULE CanvasProofs ------------------------------
(***************************************************************************)
(* What holds of imports for any notes, scenes, texts and files, and after *)
(* any imports, rewordings and retirements.                                *)
(***************************************************************************)
EXTENDS Canvas, SequenceTheorems, FiniteSetTheorems, WellFoundedInduction, TLAPS

-----------------------------------------------------------------------------
(* Naturals.                                                                *)

LEMMA Least ==
  ASSUME NEW S \in SUBSET Nat, S # {}
  PROVE  \E n \in S : \A m \in S : ~(m < n)
<1>1. PICK n \in S : \A m \in S : <<m, n>> \notin OpToRel(<, Nat)
  BY WFMin, NatLessThanWellFounded, Zenon
<1> QED BY <1>1, Zenon DEF OpToRel

\* Induction up to a bound, over a set as the provers take no operator.
LEMMA InductionUpTo ==
  ASSUME NEW k \in Nat, NEW S, 0 \in S, \A n \in 0..(k-1) : n \in S => n + 1 \in S
  PROVE  \A n \in 0..k : n \in S
<1> DEFINE Missing == {n \in 0..k : n \notin S}
<1> SUFFICES ASSUME Missing # {} PROVE FALSE
  OBVIOUS
<1>1. Missing \in SUBSET Nat
  OBVIOUS
<1>2. PICK n \in Missing : \A m \in Missing : ~(m < n)
  BY <1>1, Least
<1>3. n \in 0..k /\ n \notin S /\ n # 0
  BY <1>2
<1>4. n - 1 \in 0..(k-1) /\ n - 1 < n /\ n - 1 \in 0..k /\ (n - 1) + 1 = n
  BY <1>3
<1>5. n - 1 \in S
  <2>1. n - 1 \notin Missing
    BY <1>2, <1>4
  <2> QED BY <2>1, <1>4
<1> QED BY <1>3, <1>4, <1>5

-----------------------------------------------------------------------------
(* Recursive functions: that they exist, and their equations.               *)

\* x is the import of one element.
Imported(x, st, scene, create, e) == x = ImportElement(st, scene, create, e)

\* ImportRuns.
IsRun(R, st, scene, create, file) ==
  /\ R[0] = [st EXCEPT !.ok = TRUE, !.report = << >>]
  /\ \A n \in 1..Len(file) : Imported(R[n], R[n-1], scene, create, file[n])

LEMMA ImportRunsUnfold ==
  ASSUME NEW st, NEW scene, NEW create, NEW file, Len(file) \in Nat
  PROVE  IsRun(ImportRuns(st, scene, create, file), st, scene, create, file)
<1> DEFINE First == [st EXCEPT !.ok = TRUE, !.report = << >>]
           Next(x, n) == ImportElement(x, scene, create, file[n])
           Are(f, k) == f = [n \in 0..k |-> IF n = 0 THEN First ELSE Next(f[n-1], n)]
           S == {k \in Nat : \E f : Are(f, k)}
<1>5. ASSUME \E f : Are(f, Len(file))
      PROVE  Are(ImportRuns(st, scene, create, file), Len(file))
  BY <1>5 DEF ImportRuns
<1> HIDE DEF First, Next
<1>1. 0 \in S
  <2> DEFINE f == [n \in 0..0 |-> First]
  <2>1. \A n \in 0..0 : n = 0
    OBVIOUS
  <2>2. Are(f, 0)
    BY <2>1
  <2> QED BY <2>2
<1>2. ASSUME NEW k \in S PROVE k + 1 \in S
  <2>0. k \in Nat /\ k + 1 \in Nat
    OBVIOUS
  <2>1. PICK f : Are(f, k)
    OBVIOUS
  <2> DEFINE h == [n \in 0..(k+1) |-> IF n <= k THEN f[n] ELSE Next(f[k], k+1)]
  <2>2. ASSUME NEW n \in 0..(k+1)
        PROVE  h[n] = IF n = 0 THEN First ELSE Next(h[n-1], n)
    <3>1. CASE n = 0
      BY <2>1, <3>1
    <3>2. CASE n # 0 /\ n <= k
      BY <2>1, <3>2
    <3>3. CASE n = k + 1
      <4>1. n # 0 /\ ~(n <= k) /\ n - 1 = k /\ k \in 0..(k+1) /\ k <= k
        BY <2>0, <3>3
      <4>2. h[n] = Next(f[k], n) /\ h[n-1] = f[k]
        BY <3>3, <4>1
      <4> QED BY <4>1, <4>2
    <3>4. n = 0 \/ (n # 0 /\ n <= k) \/ n = k + 1
      BY <2>0
    <3> QED BY <3>1, <3>2, <3>3, <3>4
  <2>3. Are(h, k+1)
    BY <2>2
  <2> HIDE DEF h, Are
  <2>4. \E x : Are(x, k+1)
    BY <2>3
  <2> QED BY <2>0, <2>4
<1>3. Len(file) \in S
  <2> HIDE DEF S
  <2>1. \A n \in 0..(Len(file) - 1) : n \in S => n + 1 \in S
    BY <1>2
  <2>2. \A n \in 0..Len(file) : n \in S
    BY <1>1, <2>1, InductionUpTo
  <2> QED BY <2>2
<1>4. Are(ImportRuns(st, scene, create, file), Len(file))
  BY <1>3, <1>5
<1> QED BY <1>4 DEF First, Next, IsRun, Imported

LEMMA NotesAreSeq ==
  Notes \in Seq(Primitives) /\ Len(Notes) \in Nat /\ DOMAIN Notes = 1..Len(Notes)
<1>1. Notes \in Seq(Primitives)
  BY CanvasAssumption
<1> QED BY <1>1, LenProperties

\* Showing.
LEMMA ShowingUnfold ==
  ASSUME NEW st
  PROVE  /\ Showing(st)[0] = << >>
         /\ \A k \in 1..Len(Notes) :
              Showing(st)[k] =
                IF st.content[Notes[k]] # NoSubject /\ Notes[k] \notin retired
                THEN Append(Showing(st)[k-1], Notes[k]) ELSE Showing(st)[k-1]
<1> DEFINE Next(x, n) == IF st.content[Notes[n]] # NoSubject /\ Notes[n] \notin retired
                         THEN Append(x, Notes[n]) ELSE x
           Are(f, k) == f = [n \in 0..k |-> IF n = 0 THEN << >> ELSE Next(f[n-1], n)]
           S == {k \in Nat : \E f : Are(f, k)}
<1>0. Len(Notes) \in Nat
  BY NotesAreSeq
<1>5. ASSUME \E f : Are(f, Len(Notes)) PROVE Are(Showing(st), Len(Notes))
  BY <1>5 DEF Showing
<1> HIDE DEF Next
<1>1. 0 \in S
  <2> DEFINE f == [n \in 0..0 |-> << >>]
  <2>1. \A n \in 0..0 : n = 0
    OBVIOUS
  <2>2. Are(f, 0)
    BY <2>1
  <2> QED BY <2>2
<1>2. ASSUME NEW k \in S PROVE k + 1 \in S
  <2>0. k \in Nat /\ k + 1 \in Nat
    OBVIOUS
  <2>1. PICK f : Are(f, k)
    OBVIOUS
  <2> DEFINE h == [n \in 0..(k+1) |-> IF n <= k THEN f[n] ELSE Next(f[k], k+1)]
  <2>2. ASSUME NEW n \in 0..(k+1)
        PROVE  h[n] = IF n = 0 THEN << >> ELSE Next(h[n-1], n)
    <3>1. CASE n = 0
      BY <2>1, <3>1
    <3>2. CASE n # 0 /\ n <= k
      BY <2>1, <3>2
    <3>3. CASE n = k + 1
      <4>1. n # 0 /\ ~(n <= k) /\ n - 1 = k /\ k \in 0..(k+1) /\ k <= k
        BY <2>0, <3>3
      <4>2. h[n] = Next(f[k], n) /\ h[n-1] = f[k]
        BY <3>3, <4>1
      <4> QED BY <4>1, <4>2
    <3>4. n = 0 \/ (n # 0 /\ n <= k) \/ n = k + 1
      BY <2>0
    <3> QED BY <3>1, <3>2, <3>3, <3>4
  <2>3. Are(h, k+1)
    BY <2>2
  <2> HIDE DEF h, Are
  <2>4. \E x : Are(x, k+1)
    BY <2>3
  <2> QED BY <2>0, <2>4
<1>3. Len(Notes) \in S
  <2> HIDE DEF S
  <2>1. \A n \in 0..(Len(Notes) - 1) : n \in S => n + 1 \in S
    BY <1>2
  <2>2. \A n \in 0..Len(Notes) : n \in S
    BY <1>0, <1>1, <2>1, InductionUpTo
  <2> QED BY <1>0, <2>2
<1>4. Are(Showing(st), Len(Notes))
  BY <1>3, <1>5
<1>6. /\ Showing(st)[0] = << >>
      /\ \A k \in 1..Len(Notes) : Showing(st)[k] = Next(Showing(st)[k-1], k)
  BY <1>0, <1>4
<1> QED BY <1>6, Zenon DEF Next

-----------------------------------------------------------------------------
(* The store that an import works on.                                       *)

IsStore(st) ==
  \E c, b, r : \E ok \in BOOLEAN :
    st = [content |-> c, bindings |-> b, ok |-> ok, report |-> r]

\* Well-formed, and nothing is bound that is not there.
Typed(st) ==
  /\ IsStore(st)
  /\ st.content \in [Primitives -> Texts \cup {NoSubject}]
  /\ st.bindings \in Seq(Binding)
  /\ \A i \in DOMAIN st.bindings : Knows(st, st.bindings[i].subject)

\* A file with the identities of subjects that are there, or never will be.
Importable(st, file) ==
  /\ file \in Seq(Elements)
  /\ \A i \in DOMAIN file : file[i].identity \in Subjects => Knows(st, file[i].identity)

LEMMA CopyTyped == CanvasTypeOK => Typed(Copy)
BY DEF CanvasTypeOK, Typed, IsStore, Copy

LEMMA NextNoteIsFresh ==
  ASSUME NEW contents, Fresh(contents) # {}
  PROVE  NextNote(contents) \in Fresh(contents)
<1> DEFINE S == {i \in DOMAIN Notes : contents[Notes[i]] = NoSubject}
<1>1. DOMAIN Notes = 1..Len(Notes) /\ Len(Notes) \in Nat
  BY NotesAreSeq
<1>2. S \in SUBSET Nat
  BY <1>1
<1>3. S # {}
  BY DEF Fresh, Primitives
<1>4. PICK n \in S : \A m \in S : ~(m < n)
  BY <1>2, <1>3, Least
<1>5. \A j \in 1..(n-1) : contents[Notes[j]] # NoSubject
  <2> TAKE j \in 1..(n-1)
  <2>1. n \in 1..Len(Notes)
    BY <1>1
  <2>2. j < n /\ j \in DOMAIN Notes
    BY <1>1, <2>1
  <2> QED BY <1>4, <2>2
<1> DEFINE First(i) == /\ contents[Notes[i]] = NoSubject
                       /\ \A j \in 1..(i-1) : contents[Notes[j]] # NoSubject
           c == CHOOSE i \in DOMAIN Notes : First(i)
<1>6. c \in DOMAIN Notes /\ First(c)
  <2> HIDE DEF First
  <2>1. n \in DOMAIN Notes /\ First(n)
    BY <1>5 DEF First
  <2> QED BY <2>1
<1>7. NextNote(contents) = Notes[c]
  BY DEF NextNote
<1> HIDE DEF c
<1> QED BY <1>6, <1>7 DEF Fresh, Primitives

LEMMA Latest ==
  ASSUME NEW S \in SUBSET Nat, S # {}, NEW k \in Nat, \A n \in S : n <= k
  PROVE  (CHOOSE j \in S : \A i \in S : i <= j) \in S
<1> DEFINE T == {k - n : n \in S}
<1>1. T \in SUBSET Nat /\ T # {}
  <2>1. \A n \in S : n \in Nat /\ n <= k /\ k - n \in Nat
    OBVIOUS
  <2> QED BY <2>1
<1>2. PICK d \in T : \A m \in T : ~(m < d)
  BY <1>1, Least
<1>3. PICK n \in S : d = k - n
  BY <1>2
<1>4. \A m \in S : m <= n
  <2> TAKE m \in S
  <2>1. k - m \in T
    OBVIOUS
  <2>2. ~(k - m < k - n)
    BY <1>2, <1>3, <2>1
  <2>3. m \in Nat /\ n \in Nat
    OBVIOUS
  <2> HIDE DEF T
  <2> QED BY <2>2, <2>3
<1> QED BY <1>4

-----------------------------------------------------------------------------
(* An export is a file of subjects that are there.                          *)

LEMMA ShowingIsLive ==
  ASSUME NEW st, NEW k \in 0..Len(Notes)
  PROVE  /\ Showing(st)[k] \in Seq({n \in Primitives : st.content[n] # NoSubject})
         /\ Len(Showing(st)[k]) <= k
<1> DEFINE Live == {n \in Primitives : st.content[n] # NoSubject}
           S == {n \in Nat : Showing(st)[n] \in Seq(Live) /\ Len(Showing(st)[n]) <= n}
<1>1. 0 \in S
  <2>1. Showing(st)[0] = << >>
    BY ShowingUnfold
  <2>2. << >> \in Seq(Live) /\ Len(<< >>) = 0
    OBVIOUS
  <2>3. 0 \in Nat /\ 0 <= 0
    OBVIOUS
  <2>4. Showing(st)[0] \in Seq(Live) /\ Len(Showing(st)[0]) <= 0
    BY <2>1, <2>2, <2>3, Zenon
  <2> HIDE DEF Live
  <2> QED BY <2>3, <2>4
<1>2. ASSUME NEW n \in 0..(Len(Notes) - 1), n \in S PROVE n + 1 \in S
  <2>1. n + 1 \in 1..Len(Notes) /\ (n + 1) - 1 = n /\ n \in Nat /\ n + 1 \in Nat
    BY NotesAreSeq
  <2>2. Notes[n+1] \in Primitives
    BY <2>1, NotesAreSeq
  <2>3. Showing(st)[n+1] = IF st.content[Notes[n+1]] # NoSubject /\ Notes[n+1] \notin retired
                           THEN Append(Showing(st)[n], Notes[n+1]) ELSE Showing(st)[n]
    BY <2>1, ShowingUnfold
  <2>4. Showing(st)[n] \in Seq(Live) /\ Len(Showing(st)[n]) <= n
    BY <1>2
  <2>5. CASE st.content[Notes[n+1]] # NoSubject /\ Notes[n+1] \notin retired
    <3>1. Notes[n+1] \in Live /\ Showing(st)[n+1] = Append(Showing(st)[n], Notes[n+1])
      BY <2>2, <2>3, <2>5
    <3> HIDE DEF Live
    <3>2. /\ Append(Showing(st)[n], Notes[n+1]) \in Seq(Live)
          /\ Len(Append(Showing(st)[n], Notes[n+1])) = Len(Showing(st)[n]) + 1
          /\ Len(Showing(st)[n]) \in Nat
      BY <2>4, <3>1, AppendProperties, LenProperties
    <3>3. Showing(st)[n+1] \in Seq(Live) /\ Len(Showing(st)[n+1]) <= n + 1
      BY <2>1, <2>4, <3>1, <3>2
    <3> QED BY <2>1, <3>3
  <2>6. CASE ~(st.content[Notes[n+1]] # NoSubject /\ Notes[n+1] \notin retired)
    <3>1. Showing(st)[n+1] = Showing(st)[n]
      BY <2>3, <2>6
    <3> HIDE DEF Live
    <3>2. Len(Showing(st)[n]) \in Nat
      BY <2>4, LenProperties
    <3>3. Showing(st)[n+1] \in Seq(Live) /\ Len(Showing(st)[n+1]) <= n + 1
      BY <2>1, <2>4, <3>1, <3>2
    <3> QED BY <2>1, <3>3
  <2> QED BY <2>5, <2>6
<1> HIDE DEF S
<1>3. \A n \in 0..Len(Notes) : n \in S
  BY <1>1, <1>2, NotesAreSeq, InductionUpTo
<1> QED BY <1>3 DEF S

LEMMA PlaceOfTyped ==
  ASSUME NEW st, Typed(st), NEW scene, NEW n, NEW i \in DOMAIN Notes
  PROVE  PlaceOf(st, scene, n, i) \in AllPlaces
<1> DEFINE own == {j \in DOMAIN st.bindings :
                     st.bindings[j].subject = n /\ st.bindings[j].scene = scene}
           latest == CHOOSE j \in own : \A k \in own : k <= j
<1>1. Len(st.bindings) \in Nat /\ DOMAIN st.bindings = 1..Len(st.bindings)
  BY LenProperties DEF Typed
<1>2. own \in SUBSET Nat /\ \A k \in own : k <= Len(st.bindings)
  BY <1>1
<1>3. PlaceOf(st, scene, n, i) = IF own = {} \/ st.bindings[latest].place = NoPlace
                                 THEN <<"grid", i>> ELSE st.bindings[latest].place
  BY DEF PlaceOf
<1>4. own # {} => latest \in DOMAIN st.bindings
  <2> HIDE DEF own
  <2>1. own # {} => latest \in own
    BY <1>1, <1>2, Latest
  <2> QED BY <2>1 DEF own
<1>5. own # {} => st.bindings[latest].place \in AllPlaces
  <2> HIDE DEF own, latest
  <2> SUFFICES ASSUME own # {} PROVE st.bindings[latest].place \in AllPlaces
    OBVIOUS
  <2>1. st.bindings[latest] \in Binding
    BY <1>4, ElementOfSeq DEF Typed
  <2> QED BY <2>1 DEF Binding
<1> HIDE DEF own, latest
<1> QED BY <1>3, <1>5 DEF AllPlaces, Grid

LEMMA ExportIsImportable ==
  ASSUME Typed(Copy), NEW scene
  PROVE  Importable(Copy, Export(Copy, scene))
<1> DEFINE shown == Showing(Copy)[Len(Notes)]
           Live == {n \in Primitives : Copy.content[n] # NoSubject}
           E(i) == Element(shown[i], "text", Copy.content[shown[i]], shown[i],
                           PlaceOf(Copy, scene, shown[i], i))
<1>1. shown \in Seq(Live) /\ Len(shown) <= Len(Notes) /\ Len(shown) \in Nat
  <2>1. shown \in Seq(Live) /\ Len(shown) <= Len(Notes)
    BY NotesAreSeq, ShowingIsLive
  <2> HIDE DEF shown, Live
  <2> QED BY <2>1, LenProperties
<1>2. Export(Copy, scene) = [i \in 1..Len(shown) |-> E(i)]
  BY DEF Export
<1>3. ASSUME NEW i \in 1..Len(shown)
      PROVE  E(i) \in Elements /\ Knows(Copy, E(i).identity)
  <2>1. shown[i] \in Live
    <3> HIDE DEF shown, Live
    <3> QED BY <1>1, ElementOfSeq
  <2>2. shown[i] \in Primitives /\ Copy.content[shown[i]] # NoSubject
    BY <2>1
  <2>3. Copy.content[shown[i]] \in Texts
    BY <2>2 DEF Typed
  <2>4. i \in DOMAIN Notes
    BY <1>1, NotesAreSeq
  <2>5. PlaceOf(Copy, scene, shown[i], i) \in AllPlaces
    BY <2>4, PlaceOfTyped
  <2> HIDE DEF shown
  <2>6. "text" \in Types
    BY CanvasAssumption
  <2> QED BY <2>2, <2>3, <2>5, <2>6 DEF Element, Elements, Subjects, Knows
<1> HIDE DEF shown, E, Live
<1>4. Export(Copy, scene) \in Seq(Elements)
  BY <1>1, <1>2, <1>3
<1>5. \A i \in DOMAIN Export(Copy, scene) : Knows(Copy, Export(Copy, scene)[i].identity)
  BY <1>2, <1>3
<1> QED BY <1>4, <1>5 DEF Importable

\* What people have to import can be imported.
LEMMA FilesAreImportable ==
  ASSUME Typed(Copy), NEW scene, NEW file \in FilesOf(scene)
  PROVE  Importable(Copy, file)
<1>1. CASE file \in Files /\ Given(file)
  <2>1. file \in Seq(Elements)
    BY <1>1, CanvasAssumption
  <2> QED BY <1>1, <2>1 DEF Importable, Given, Knows, Copy, Subjects
<1>2. CASE file = Export(Copy, scene)
  BY <1>2, ExportIsImportable
<1> QED BY <1>1, <1>2 DEF FilesOf

-----------------------------------------------------------------------------
(* What an element does.                                                    *)

BindingOf(scene, s, e, via) ==
  [subject |-> s, scene |-> scene, shape |-> e.id, fingerprint |-> Fingerprint(e),
   place |-> e.place, via |-> via]

\* Importing the element changes nothing: its content is bound to what it names,
\* which otherwise is nobody's identity, or to something, if it names nothing;
\* or no note is wanted for it.
Settled(st, scene, create, e) ==
  IF e.identity = NoSubject
  THEN Shown(st, scene, e) # {} \/ ~create \/ Normal[e.text] = ""
  ELSE e.identity \in Shown(st, scene, e) \/ ~Knows(st, e.identity)

\* The five things that can come of an element.
Stopped(st, x) == ~st.ok /\ x = st
Stops(st, x, e) ==
  st.ok /\ e.identity = Broken /\ IsStore(x) /\ Same(x, st) /\ ~x.ok
Skips(st, x, scene, create, e) ==
  /\ st.ok /\ e.identity # Broken /\ Settled(st, scene, create, e)
  /\ IsStore(x) /\ Same(x, st) /\ x.ok
Binds(st, x, scene, e) ==
  /\ st.ok /\ e.identity \notin {NoSubject, Broken}
  /\ e.identity \notin Shown(st, scene, e) /\ Knows(st, e.identity)
  /\ IsStore(x) /\ x.ok /\ x.content = st.content
  /\ x.bindings = Append(st.bindings, BindingOf(scene, e.identity, e, "custom-data"))
NoteBound(st, x, scene, e) ==
  LET note == NextNote(st.content)
  IN /\ IsStore(x) /\ x.ok = st.ok
     /\ x.content = [st.content EXCEPT ![note] = e.text]
     /\ x.bindings = Append(st.bindings, BindingOf(scene, note, e, "import"))
TakesNote(st, x, scene, create, e) ==
  /\ st.ok /\ e.identity = NoSubject /\ Shown(st, scene, e) = {}
  /\ create /\ Normal[e.text] # "" /\ NoteBound(st, x, scene, e)

LEMMA ReportedIsSame ==
  ASSUME NEW st, IsStore(st), NEW how, NEW s
  PROVE  /\ IsStore(Reported(st, how, s)) /\ Same(Reported(st, how, s), st)
         /\ Reported(st, how, s).ok = st.ok
         /\ Reported(st, how, s).report = Append(st.report, [how |-> how, subject |-> s])
<1>1. PICK c, b, r : \E ok \in BOOLEAN :
        st = [content |-> c, bindings |-> b, ok |-> ok, report |-> r]
  BY DEF IsStore
<1>2. PICK ok \in BOOLEAN : st = [content |-> c, bindings |-> b, ok |-> ok, report |-> r]
  BY <1>1
<1> DEFINE entry == [how |-> how, subject |-> s]
           x == [content |-> c, bindings |-> b, ok |-> ok, report |-> Append(r, entry)]
<1>3. Reported(st, how, s) = x
  <2>1. Reported(st, how, s) = [st EXCEPT !.report = Append(@, entry)]
    BY DEF Reported
  <2> HIDE DEF entry
  <2> QED BY <1>2, <2>1
<1>4. IsStore(x)
  BY DEF IsStore
<1>5. /\ Same(x, st) /\ x.ok = st.ok
      /\ x.report = Append(st.report, [how |-> how, subject |-> s])
  BY <1>2 DEF Same
<1> QED BY <1>3, <1>4, <1>5

LEMMA BoundAppends ==
  ASSUME NEW st, IsStore(st), NEW scene, NEW s, NEW e, NEW via
  PROVE  /\ IsStore(Bound(st, scene, s, e, via))
         /\ Bound(st, scene, s, e, via).content = st.content
         /\ Bound(st, scene, s, e, via).ok = st.ok
         /\ Bound(st, scene, s, e, via).bindings = Append(st.bindings, BindingOf(scene, s, e, via))
<1>1. PICK c, b, r : \E ok \in BOOLEAN :
        st = [content |-> c, bindings |-> b, ok |-> ok, report |-> r]
  BY DEF IsStore
<1>2. PICK ok \in BOOLEAN : st = [content |-> c, bindings |-> b, ok |-> ok, report |-> r]
  BY <1>1
<1> DEFINE x == [content |-> c, bindings |-> Append(b, BindingOf(scene, s, e, via)),
                 ok |-> ok, report |-> r]
<1>3. Bound(st, scene, s, e, via) = x
  BY <1>2 DEF Bound, BindingOf
<1>4. IsStore(x)
  BY DEF IsStore
<1>5. /\ x.content = st.content /\ x.ok = st.ok
      /\ x.bindings = Append(st.bindings, BindingOf(scene, s, e, via))
  BY <1>2
<1> QED BY <1>3, <1>4, <1>5

\* A binding that is appended and reported.
LEMMA BoundAndReported ==
  ASSUME NEW st, IsStore(st), NEW scene, NEW s, NEW e, NEW via, NEW how,
         NEW x, x = Reported(Bound(st, scene, s, e, via), how, s)
  PROVE  /\ IsStore(x) /\ x.ok = st.ok /\ x.content = st.content
         /\ x.bindings = Append(st.bindings, BindingOf(scene, s, e, via))
<1>1. PICK b : b = Bound(st, scene, s, e, via)
  OBVIOUS
<1>2. IsStore(b) /\ b.content = st.content /\ b.ok = st.ok
  BY <1>1, BoundAppends
<1>3. b.bindings = Append(st.bindings, BindingOf(scene, s, e, via))
  BY <1>1, BoundAppends
<1>4. x = Reported(b, how, s)
  BY <1>1
<1>5. IsStore(x) /\ Same(x, b) /\ x.ok = b.ok
  <2>0. IsStore(b)
    BY <1>2
  <2> HIDE <1>1, <1>2
  <2>1. IsStore(Reported(b, how, s)) /\ Same(Reported(b, how, s), b)
    BY <2>0, ReportedIsSame, Zenon
  <2>2. Reported(b, how, s).ok = b.ok
    BY <2>0, ReportedIsSame, Zenon
  <2> QED BY <1>4, <2>1, <2>2, Zenon
<1> QED BY <1>2, <1>3, <1>5 DEF Same

\* What AsNote leaves.
LEMMA NoteTaken ==
  ASSUME NEW st, IsStore(st), NEW scene, NEW e
  PROVE  NoteBound(st, AsNote(st, scene, e), scene, e)
<1>1. PICK c, b, r : \E ok \in BOOLEAN :
        st = [content |-> c, bindings |-> b, ok |-> ok, report |-> r]
  BY DEF IsStore
<1>2. PICK ok \in BOOLEAN : st = [content |-> c, bindings |-> b, ok |-> ok, report |-> r]
  BY <1>1
<1>3. PICK note : note = NextNote(st.content)
  OBVIOUS
<1>4. PICK d : d = [st.content EXCEPT ![note] = e.text]
  OBVIOUS
<1>5. PICK y : y = [content |-> d, bindings |-> b, ok |-> ok, report |-> r]
  OBVIOUS
<1>6. IsStore(y) /\ y.content = d /\ y.bindings = st.bindings /\ y.ok = st.ok
  BY <1>2, <1>5 DEF IsStore
<1>7. y = [st EXCEPT !.content[note] = e.text]
  <2>1. [st EXCEPT !.content = d] = [content |-> d, bindings |-> b, ok |-> ok, report |-> r]
    BY <1>2
  <2>2. [st EXCEPT !.content[note] = e.text] = [st EXCEPT !.content = d]
    BY <1>2, <1>4
  <2> QED BY <1>5, <2>1, <2>2
<1>8. PICK x : x = AsNote(st, scene, e)
  OBVIOUS
<1>9. x = Reported(Bound(y, scene, note, e, "import"), "created", note)
  BY <1>3, <1>7, <1>8 DEF AsNote
<1>10. /\ IsStore(x) /\ x.ok = y.ok /\ x.content = y.content
       /\ x.bindings = Append(y.bindings, BindingOf(scene, note, e, "import"))
  BY <1>6, <1>9, BoundAndReported
<1>11. NoteBound(st, x, scene, e)
  BY <1>3, <1>4, <1>6, <1>10 DEF NoteBound
<1> QED BY <1>8, <1>11

LEMMA ByIdentityOutcome ==
  ASSUME NEW st, IsStore(st), st.ok, NEW scene, NEW create, NEW e,
         e.identity \notin {NoSubject, Broken}
  PROVE  LET x == ByIdentity(st, scene, e)
         IN Skips(st, x, scene, create, e) \/ Binds(st, x, scene, e)
<1> DEFINE x == ByIdentity(st, scene, e)
<1> SUFFICES Skips(st, x, scene, create, e) \/ Binds(st, x, scene, e)
  OBVIOUS
<1>1. CASE e.identity \in Shown(st, scene, e)
  <2>1. x = Reported(st, "skipped", e.identity)
    BY <1>1 DEF ByIdentity
  <2> HIDE DEF x
  <2>2. IsStore(x) /\ Same(x, st) /\ x.ok = st.ok
    BY <2>1, ReportedIsSame
  <2>3. Settled(st, scene, create, e)
    BY <1>1 DEF Settled
  <2> QED BY <2>2, <2>3 DEF Skips
<1>2. CASE e.identity \notin Shown(st, scene, e) /\ ~Knows(st, e.identity)
  <2>1. x = Reported(st, "unknown", e.identity)
    BY <1>2 DEF ByIdentity
  <2> HIDE DEF x
  <2>2. IsStore(x) /\ Same(x, st) /\ x.ok = st.ok
    BY <2>1, ReportedIsSame
  <2>3. Settled(st, scene, create, e)
    BY <1>2 DEF Settled
  <2> QED BY <2>2, <2>3 DEF Skips
<1>3. CASE e.identity \notin Shown(st, scene, e) /\ Knows(st, e.identity)
  <2>1. x = Reported(Bound(st, scene, e.identity, e, "custom-data"), "bound", e.identity)
    BY <1>3 DEF ByIdentity
  <2> HIDE DEF x
  <2>2. /\ IsStore(x) /\ x.ok = st.ok /\ x.content = st.content
        /\ x.bindings = Append(st.bindings, BindingOf(scene, e.identity, e, "custom-data"))
    <3>1. PICK s : s = e.identity
      OBVIOUS
    <3>2. PICK via, how : via = "custom-data" /\ how = "bound"
      OBVIOUS
    <3>3. x = Reported(Bound(st, scene, s, e, via), how, s)
      BY <2>1, <3>1, <3>2, Zenon
    <3>4. IsStore(x)
      BY <3>3, BoundAndReported
    <3>5. x.ok = st.ok
      BY <3>3, BoundAndReported
    <3>6. x.content = st.content
      BY <3>3, BoundAndReported
    <3>7. x.bindings = Append(st.bindings, BindingOf(scene, s, e, via))
      BY <3>3, BoundAndReported
    <3> QED BY <3>1, <3>2, <3>4, <3>5, <3>6, <3>7, Zenon
  <2> QED BY <1>3, <2>2 DEF Binds
<1> QED BY <1>1, <1>2, <1>3

LEMMA ByContentOutcome ==
  ASSUME NEW st, IsStore(st), st.ok, NEW scene, NEW create, NEW e,
         e.identity = NoSubject, Shown(st, scene, e) # {}
  PROVE  Skips(st, ByContent(st, scene, e), scene, create, e)
<1>1. \E how, s : ByContent(st, scene, e) = Reported(st, how, s)
  BY DEF ByContent
<1>2. PICK how, s : ByContent(st, scene, e) = Reported(st, how, s)
  BY <1>1
<1>3. NoSubject # Broken
  BY CanvasAssumption
<1> DEFINE x == ByContent(st, scene, e)
<1>7. x = Reported(st, how, s)
  BY <1>2
<1> HIDE DEF x
<1>4. IsStore(x) /\ Same(x, st) /\ x.ok = st.ok
  BY <1>7, ReportedIsSame
<1>5. Settled(st, scene, create, e)
  BY DEF Settled
<1>6. Skips(st, x, scene, create, e)
  BY <1>3, <1>4, <1>5 DEF Skips
<1> QED BY <1>6 DEF x

LEMMA AsNoteOutcome ==
  ASSUME NEW st, IsStore(st), st.ok, NEW scene, NEW create, NEW e,
         e.identity = NoSubject, Shown(st, scene, e) = {}, create, Normal[e.text] # ""
  PROVE  TakesNote(st, AsNote(st, scene, e), scene, create, e)
<1>1. NoteBound(st, AsNote(st, scene, e), scene, e)
  BY NoteTaken
<1> QED BY <1>1 DEF TakesNote

LEMMA ElementOutcome ==
  ASSUME NEW st, IsStore(st), NEW scene, NEW create, NEW e,
         NEW x, Imported(x, st, scene, create, e)
  PROVE  \/ Stopped(st, x)
         \/ Stops(st, x, e)
         \/ Skips(st, x, scene, create, e)
         \/ Binds(st, x, scene, e)
         \/ TakesNote(st, x, scene, create, e)
<1>0. x = IF ~st.ok THEN st
          ELSE IF e.identity = Broken THEN [st EXCEPT !.ok = FALSE]
          ELSE IF e.identity # NoSubject THEN ByIdentity(st, scene, e)
          ELSE IF Shown(st, scene, e) # {} THEN ByContent(st, scene, e)
          ELSE IF create /\ Normal[e.text] # "" THEN AsNote(st, scene, e)
          ELSE Reported(st, "unbound", NoSubject)
  BY DEF Imported, ImportElement
<1>1. CASE ~st.ok
  BY <1>0, <1>1 DEF Stopped
<1>2. CASE st.ok /\ e.identity = Broken
  <2>1. x = [st EXCEPT !.ok = FALSE]
    BY <1>0, <1>2
  <2> QED BY <1>2, <2>1 DEF Stops, IsStore, Same
<1>3. CASE st.ok /\ e.identity \notin {NoSubject, Broken}
  <2>1. x = ByIdentity(st, scene, e)
    BY <1>0, <1>3
  <2> QED BY <1>3, <2>1, ByIdentityOutcome
<1>4. CASE st.ok /\ e.identity = NoSubject
  <2>0. NoSubject # Broken
    BY CanvasAssumption
  <2>1. CASE Shown(st, scene, e) # {}
    <3>1. x = ByContent(st, scene, e)
      BY <1>0, <1>4, <2>0, <2>1
    <3> QED BY <1>4, <2>1, <3>1, ByContentOutcome
  <2>2. CASE Shown(st, scene, e) = {} /\ create /\ Normal[e.text] # ""
    <3>1. x = AsNote(st, scene, e)
      BY <1>0, <1>4, <2>0, <2>2
    <3> QED BY <1>4, <2>2, <3>1, AsNoteOutcome
  <2>3. CASE Shown(st, scene, e) = {} /\ ~(create /\ Normal[e.text] # "")
    <3>1. x = Reported(st, "unbound", NoSubject)
      BY <1>0, <1>4, <2>0, <2>3
    <3>2. IsStore(x) /\ Same(x, st) /\ x.ok = st.ok
      BY <3>1, ReportedIsSame
    <3>3. Settled(st, scene, create, e)
      BY <1>4, <2>3 DEF Settled
    <3> QED BY <1>4, <2>0, <3>2, <3>3 DEF Skips
  <2> QED BY <2>1, <2>2, <2>3
<1> QED BY <1>1, <1>2, <1>3, <1>4

-----------------------------------------------------------------------------
(* What a store becomes: it gets notes and bindings and loses none.         *)

Grown(st, x) ==
  /\ \A i \in DOMAIN st.bindings : i \in DOMAIN x.bindings /\ x.bindings[i] = st.bindings[i]
  /\ \A n \in Primitives : st.content[n] # NoSubject => x.content[n] = st.content[n]

\* One binding more, of a subject that did not show the content before.
Gets(st, x, scene, e, s) ==
  /\ s \in Subjects \ Shown(st, scene, e) /\ Knows(x, s)
  /\ \E via \in {"custom-data", "import"} :
       x.bindings = Append(st.bindings, BindingOf(scene, s, e, via))

\* The element takes one id at most.
TakesNoMore(st, x) == Fresh(st.content) \subseteq Fresh(x.content) \cup {NextNote(st.content)}

LEMMA GrownKnows ==
  ASSUME NEW st, NEW x, Grown(st, x), NEW s, Knows(st, s)
  PROVE  Knows(x, s)
BY DEF Grown, Knows

LEMMA GrownShows ==
  ASSUME NEW st, NEW x, Grown(st, x), NEW scene, NEW e
  PROVE  Shown(st, scene, e) \subseteq Shown(x, scene, e)
BY DEF Grown, Shown

LEMMA GrownGrown ==
  ASSUME NEW st, NEW x, NEW y, Grown(st, x), Grown(x, y)
  PROVE  Grown(st, y)
BY DEF Grown

LEMMA SameGrown ==
  ASSUME NEW st, NEW x, Same(x, st)
  PROVE  Grown(st, x)
BY DEF Same, Grown

LEMMA SameTyped ==
  ASSUME NEW st, Typed(st), NEW x, IsStore(x), Same(x, st)
  PROVE  Typed(x)
BY DEF Same, Typed, Knows

\* A note is taken, and nothing else changes.
Writes(st, x) ==
  /\ NextNote(st.content) \in Primitives /\ Knows(x, NextNote(st.content))
  /\ x.content \in [Primitives -> Texts \cup {NoSubject}]
  /\ \A n \in Primitives : st.content[n] # NoSubject => x.content[n] = st.content[n]
  /\ TakesNoMore(st, x)

LEMMA NoteGiven ==
  ASSUME NEW st, Typed(st), NEW scene, NEW e \in Elements, NEW x,
         NoteBound(st, x, scene, e), Fresh(st.content) # {}
  PROVE  Writes(st, x)
<1>1. PICK note : note = NextNote(st.content)
  OBVIOUS
<1>2. note \in Primitives /\ st.content[note] = NoSubject
  BY <1>1, NextNoteIsFresh DEF Fresh
<1>3. PICK text : text = e.text
  OBVIOUS
<1>4. text \in Texts /\ text # NoSubject
  BY <1>3, CanvasAssumption DEF Elements
<1>5. x.content = [st.content EXCEPT ![note] = text]
  BY <1>1, <1>3 DEF NoteBound
<1>6. st.content \in [Primitives -> Texts \cup {NoSubject}]
  BY DEF Typed
<1>7. /\ x.content \in [Primitives -> Texts \cup {NoSubject}]
      /\ x.content[note] # NoSubject
      /\ \A n \in Primitives : n # note => x.content[n] = st.content[n]
  BY <1>2, <1>4, <1>5, <1>6
<1>8. Fresh(st.content) \subseteq Fresh(x.content) \cup {note}
  BY <1>7 DEF Fresh
<1>9. \A n \in Primitives : st.content[n] # NoSubject => x.content[n] = st.content[n]
  BY <1>2, <1>7
<1>10. Knows(x, note)
  BY <1>2, <1>7 DEF Knows
<1> QED BY <1>1, <1>2, <1>7, <1>8, <1>9, <1>10 DEF TakesNoMore, Writes

\* Nothing changes, or a binding is added.
LEMMA ElementGets ==
  ASSUME NEW st, Typed(st), NEW scene, NEW create, NEW e \in Elements, NEW x,
         Imported(x, st, scene, create, e), st.ok => Fresh(st.content) # {}
  PROVE  /\ IsStore(x) /\ TakesNoMore(st, x)
         /\ x.content \in [Primitives -> Texts \cup {NoSubject}]
         /\ \A n \in Primitives : st.content[n] # NoSubject => x.content[n] = st.content[n]
         /\ Same(x, st) \/ \E s \in Subjects : Gets(st, x, scene, e, s)
<1>0. IsStore(st) /\ st.content \in [Primitives -> Texts \cup {NoSubject}]
  BY DEF Typed
<1>1. \/ Stopped(st, x)
      \/ Stops(st, x, e)
      \/ Skips(st, x, scene, create, e)
      \/ Binds(st, x, scene, e)
      \/ TakesNote(st, x, scene, create, e)
  BY <1>0, ElementOutcome
<1>2. CASE Stopped(st, x) \/ Stops(st, x, e) \/ Skips(st, x, scene, create, e)
  <2>1. IsStore(x) /\ Same(x, st)
    BY <1>0, <1>2 DEF Stopped, Stops, Skips, Same
  <2> QED BY <1>0, <2>1 DEF Same, TakesNoMore
<1>3. CASE Binds(st, x, scene, e)
  <2>1. /\ e.identity \notin Shown(st, scene, e) /\ Knows(st, e.identity)
        /\ IsStore(x) /\ x.content = st.content
        /\ x.bindings = Append(st.bindings, BindingOf(scene, e.identity, e, "custom-data"))
    BY <1>3 DEF Binds
  <2>2. e.identity \in Subjects /\ Knows(x, e.identity)
    BY <2>1 DEF Knows, Subjects
  <2>3. Gets(st, x, scene, e, e.identity)
    BY <2>1, <2>2 DEF Gets
  <2> QED BY <1>0, <2>1, <2>2, <2>3 DEF TakesNoMore
<1>4. CASE TakesNote(st, x, scene, create, e)
  <2>0. st.ok /\ Shown(st, scene, e) = {} /\ NoteBound(st, x, scene, e)
    BY <1>4 DEF TakesNote
  <2>1. PICK note : note = NextNote(st.content)
    OBVIOUS
  <2>2. IsStore(x) /\ x.bindings = Append(st.bindings, BindingOf(scene, note, e, "import"))
    BY <2>0, <2>1 DEF NoteBound
  <2>3. Writes(st, x)
    BY <2>0, NoteGiven
  <2>4. note \in Subjects /\ Knows(x, note)
    BY <2>1, <2>3 DEF Writes, Subjects
  <2>5. Gets(st, x, scene, e, note)
    BY <2>0, <2>2, <2>4 DEF Gets
  <2> QED BY <2>2, <2>3, <2>4, <2>5 DEF Writes
<1> QED BY <1>1, <1>2, <1>3, <1>4

LEMMA BindingIsTyped ==
  ASSUME NEW scene \in Scenes, NEW s \in Subjects, NEW e \in Elements,
         NEW via \in {"custom-data", "import"}
  PROVE  BindingOf(scene, s, e, via) \in Binding
<1>1. PICK type, text, id, place : type = e.type /\ text = e.text /\ id = e.id /\ place = e.place
  OBVIOUS
<1>2. type \in Types /\ text \in Texts /\ id \in Shapes \cup Primitives /\ place \in AllPlaces
  BY <1>1 DEF Elements
<1>3. Fingerprint(e) \in Fingerprints
  BY <1>1, <1>2 DEF Fingerprint, Fingerprints
<1>4. PICK f : f = Fingerprint(e)
  OBVIOUS
<1>5. BindingOf(scene, s, e, via) =
        [subject |-> s, scene |-> scene, shape |-> id, fingerprint |-> f,
         place |-> place, via |-> via]
  BY <1>1, <1>4 DEF BindingOf
<1> QED BY <1>2, <1>3, <1>4, <1>5 DEF Binding

UniqueIn(bs) ==
  \A i, j \in DOMAIN bs :
    /\ bs[i].subject = bs[j].subject
    /\ bs[i].scene = bs[j].scene
    /\ bs[i].fingerprint = bs[j].fingerprint
    => i = j

\* The binding that is added leaves the others, and is the only one of its kind.
LEMMA GetsGrows ==
  ASSUME NEW st, Typed(st), NEW scene \in Scenes, NEW e \in Elements, NEW s \in Subjects,
         NEW x, IsStore(x), Gets(st, x, scene, e, s),
         x.content \in [Primitives -> Texts \cup {NoSubject}],
         \A n \in Primitives : st.content[n] # NoSubject => x.content[n] = st.content[n]
  PROVE  /\ Typed(x) /\ Grown(st, x) /\ s \in Shown(x, scene, e)
         /\ UniqueIn(st.bindings) => UniqueIn(x.bindings)
<1>1. PICK via \in {"custom-data", "import"} :
        x.bindings = Append(st.bindings, BindingOf(scene, s, e, via))
  BY DEF Gets
<1>2. PICK b : b = BindingOf(scene, s, e, via)
  OBVIOUS
<1>3. b \in Binding /\ b.subject = s /\ b.scene = scene /\ b.fingerprint = Fingerprint(e)
  BY <1>2, BindingIsTyped DEF BindingOf
<1>4. PICK old : old = st.bindings
  OBVIOUS
<1>5. PICK new : new = x.bindings
  OBVIOUS
<1>6. old \in Seq(Binding) /\ Len(old) \in Nat /\ new = Append(old, b)
  BY <1>1, <1>2, <1>4, <1>5, LenProperties DEF Typed
<1>7. /\ new \in Seq(Binding) /\ DOMAIN new = 1..(Len(old) + 1) /\ DOMAIN old = 1..Len(old)
      /\ \A i \in 1..Len(old) : new[i] = old[i]
      /\ new[Len(old) + 1] = b
  BY <1>3, <1>6, AppendProperties, LenProperties
<1>8. \A i \in DOMAIN old : i \in DOMAIN new /\ new[i] = old[i]
  BY <1>6, <1>7
<1>9. Grown(st, x)
  BY <1>4, <1>5, <1>8 DEF Grown
<1>10. \A i \in DOMAIN new : i \in DOMAIN old \/ (i = Len(old) + 1 /\ i \notin DOMAIN old)
  BY <1>6, <1>7
<1>11. Knows(x, s)
  BY DEF Gets
<1>12. \A i \in DOMAIN new : Knows(x, new[i].subject)
  <2> TAKE i \in DOMAIN new
  <2>1. CASE i \in DOMAIN old
    BY <1>4, <1>8, <1>9, <2>1, GrownKnows DEF Typed
  <2>2. CASE i = Len(old) + 1
    BY <1>3, <1>7, <1>11, <2>2
  <2> QED BY <1>10, <2>1, <2>2
<1>13. Typed(x)
  BY <1>5, <1>7, <1>12 DEF Typed
<1>14. s \in Shown(x, scene, e)
  <2>1. Len(old) + 1 \in DOMAIN new
    BY <1>6, <1>7
  <2>2. Shows(new[Len(old) + 1], scene, e) /\ new[Len(old) + 1].subject = s
    BY <1>3, <1>7 DEF Shows
  <2> QED BY <1>5, <2>1, <2>2 DEF Shown
<1>15. \A i \in DOMAIN old :
         ~(old[i].subject = s /\ old[i].scene = scene /\ old[i].fingerprint = Fingerprint(e))
  BY <1>4 DEF Gets, Shown, Shows
<1>16. ASSUME UniqueIn(old) PROVE UniqueIn(new)
  <2> SUFFICES ASSUME NEW i \in DOMAIN new, NEW j \in DOMAIN new,
                      new[i].subject = new[j].subject, new[i].scene = new[j].scene,
                      new[i].fingerprint = new[j].fingerprint
               PROVE  i = j
    BY DEF UniqueIn
  <2>1. CASE i \in DOMAIN old /\ j \in DOMAIN old
    BY <1>8, <1>16, <2>1 DEF UniqueIn
  <2>2. CASE i \in DOMAIN old /\ j = Len(old) + 1
    BY <1>3, <1>7, <1>8, <1>15, <2>2
  <2>3. CASE i = Len(old) + 1 /\ j \in DOMAIN old
    BY <1>3, <1>7, <1>8, <1>15, <2>3
  <2> QED BY <1>10, <2>1, <2>2, <2>3
<1> QED BY <1>4, <1>5, <1>9, <1>13, <1>14, <1>16

\* A step of an import, and what it leaves to hold.
LEMMA ElementGrows ==
  ASSUME NEW st, Typed(st), NEW scene \in Scenes, NEW create, NEW e \in Elements, NEW x,
         Imported(x, st, scene, create, e), st.ok => Fresh(st.content) # {}
  PROVE  /\ Typed(x) /\ Grown(st, x) /\ TakesNoMore(st, x)
         /\ UniqueIn(st.bindings) => UniqueIn(x.bindings)
<1>1. /\ IsStore(x) /\ TakesNoMore(st, x)
      /\ x.content \in [Primitives -> Texts \cup {NoSubject}]
      /\ \A n \in Primitives : st.content[n] # NoSubject => x.content[n] = st.content[n]
      /\ Same(x, st) \/ \E s \in Subjects : Gets(st, x, scene, e, s)
  BY ElementGets
<1>2. CASE Same(x, st)
  BY <1>1, <1>2, SameGrown, SameTyped DEF Same
<1>3. CASE \E s \in Subjects : Gets(st, x, scene, e, s)
  <2>1. PICK s \in Subjects : Gets(st, x, scene, e, s)
    BY <1>3
  <2> QED BY <1>1, <2>1, GetsGrows
<1> QED BY <1>1, <1>2, <1>3

-----------------------------------------------------------------------------
(* Whole imports.                                                           *)

LEMMA PrimitivesAreFinite == IsFiniteSet(Primitives)
<1>1. IsFiniteSet(1..Len(Notes)) /\ DOMAIN Notes = 1..Len(Notes)
  BY NotesAreSeq, FS_Interval
<1>2. Notes \in Surjection(1..Len(Notes), Primitives)
  BY <1>1, NotesAreSeq DEF Surjection, Primitives
<1> QED BY <1>1, <1>2, FS_Surjection

\* There are ids for k notes more.
Room(st, k) == Cardinality(Fresh(st.content)) >= k

LEMMA FreshIsFinite ==
  ASSUME NEW st
  PROVE  IsFiniteSet(Fresh(st.content)) /\ Cardinality(Fresh(st.content)) \in Nat
<1>1. Fresh(st.content) \subseteq Primitives
  BY DEF Fresh
<1>2. IsFiniteSet(Fresh(st.content))
  BY <1>1, PrimitivesAreFinite, FS_Subset
<1> QED BY <1>2, FS_CardinalityType

LEMMA RoomIsFresh ==
  ASSUME NEW st, NEW k \in Nat, k > 0, Room(st, k)
  PROVE  Fresh(st.content) # {}
<1>1. SUFFICES ASSUME Fresh(st.content) = {} PROVE FALSE
  OBVIOUS
<1>2. Cardinality(Fresh(st.content)) = 0
  BY <1>1, FS_EmptySet
<1> QED BY <1>2 DEF Room

LEMMA RoomLeft ==
  ASSUME NEW st, NEW x, TakesNoMore(st, x), NEW k \in Nat, Room(st, k + 1)
  PROVE  Room(x, k)
<1> DEFINE F == Fresh(st.content)
           G == Fresh(x.content)
           note == NextNote(st.content)
<1>1. IsFiniteSet(F) /\ Cardinality(F) \in Nat /\ IsFiniteSet(G) /\ Cardinality(G) \in Nat
  BY FreshIsFinite
<1>2. F \subseteq G \cup {note}
  BY DEF TakesNoMore
<1>3. Cardinality(F) >= k + 1
  BY DEF Room
<1> HIDE DEF F, G, note
<1>4. /\ IsFiniteSet(G \cup {note})
      /\ Cardinality(G \cup {note}) = IF note \in G THEN Cardinality(G) ELSE Cardinality(G) + 1
  BY <1>1, FS_AddElement
<1>5. Cardinality(F) <= Cardinality(G \cup {note})
  BY <1>2, <1>4, FS_Subset
<1>6. Cardinality(G) >= k
  BY <1>1, <1>3, <1>4, <1>5
<1> QED BY <1>6 DEF Room, G

LEMMA FileIsSeq ==
  ASSUME NEW file \in Seq(Elements)
  PROVE  /\ Len(file) \in Nat /\ DOMAIN file = 1..Len(file)
         /\ \A n \in 1..Len(file) : file[n] \in Elements
BY LenProperties, ElementOfSeq

LEMMA RunStarts ==
  ASSUME NEW st, IsStore(st), NEW x, x = [st EXCEPT !.ok = TRUE, !.report = << >>]
  PROVE  IsStore(x) /\ Same(x, st) /\ x.ok /\ x.report = << >>
BY DEF IsStore, Same

\* The imports whose stores are well-formed all along.
LEMMA RunsTyped ==
  ASSUME NEW st, Typed(st), NEW scene \in Scenes, NEW create, NEW file \in Seq(Elements),
         Room(st, Len(file)), NEW R, IsRun(R, st, scene, create, file)
  PROVE  /\ Same(R[0], st) /\ R[0].ok /\ R[0].report = << >>
         /\ \A n \in 0..Len(file) :
              /\ Typed(R[n]) /\ Room(R[n], Len(file) - n)
              /\ UniqueIn(st.bindings) => UniqueIn(R[n].bindings)
         /\ \A n \in 0..(Len(file) - 1) : Grown(R[n], R[n+1])
<1>0. Len(file) \in Nat /\ \A n \in 1..Len(file) : file[n] \in Elements
  BY FileIsSeq
<1>1. /\ R[0] = [st EXCEPT !.ok = TRUE, !.report = << >>]
      /\ \A n \in 1..Len(file) : Imported(R[n], R[n-1], scene, create, file[n])
  BY DEF IsRun
<1>2. /\ IsStore(R[0]) /\ Same(R[0], st) /\ R[0].ok /\ R[0].report = << >>
  BY <1>1, RunStarts DEF Typed
<1> DEFINE Good(n) == /\ Typed(R[n]) /\ Room(R[n], Len(file) - n)
                      /\ UniqueIn(st.bindings) => UniqueIn(R[n].bindings)
           S == {n \in Nat : Good(n)}
<1>3. 0 \in S
  <2>1. Typed(R[0])
    BY <1>2, SameTyped
  <2>2. Len(file) - 0 = Len(file)
    BY <1>0
  <2>3. Room(R[0], Len(file) - 0)
    BY <1>2, <2>2 DEF Room, Same
  <2>4. UniqueIn(st.bindings) => UniqueIn(R[0].bindings)
    BY <1>2 DEF Same
  <2> QED BY <2>1, <2>3, <2>4
<1>4. ASSUME NEW n \in 0..(Len(file) - 1), Good(n)
      PROVE  Good(n + 1) /\ Grown(R[n], R[n+1])
  <2>1. /\ n + 1 \in 1..Len(file) /\ (n + 1) - 1 = n /\ Len(file) - n \in Nat
        /\ Len(file) - n > 0 /\ Len(file) - (n + 1) \in Nat
        /\ (Len(file) - (n + 1)) + 1 = Len(file) - n
    BY <1>0
  <2>2. Imported(R[n+1], R[n], scene, create, file[n+1]) /\ file[n+1] \in Elements
    BY <1>0, <1>1, <2>1
  <2>3. Typed(R[n]) /\ Room(R[n], Len(file) - n) /\ Fresh(R[n].content) # {}
    BY <1>4, <2>1, RoomIsFresh
  <2>4. /\ Typed(R[n+1]) /\ Grown(R[n], R[n+1]) /\ TakesNoMore(R[n], R[n+1])
        /\ UniqueIn(R[n].bindings) => UniqueIn(R[n+1].bindings)
    <3>1. PICK a, x, e : a = R[n] /\ x = R[n+1] /\ e = file[n+1]
      OBVIOUS
    <3>2. /\ Imported(x, a, scene, create, e) /\ e \in Elements
          /\ Typed(a) /\ Fresh(a.content) # {}
      BY <2>2, <2>3, <3>1
    <3>3. /\ Typed(x) /\ Grown(a, x) /\ TakesNoMore(a, x)
          /\ UniqueIn(a.bindings) => UniqueIn(x.bindings)
      BY <3>2, ElementGrows
    <3> QED BY <3>1, <3>3
  <2>5. Room(R[n], (Len(file) - (n + 1)) + 1)
    BY <2>1, <2>3
  <2>6. Room(R[n+1], Len(file) - (n + 1))
    BY <2>1, <2>4, <2>5, RoomLeft
  <2> QED BY <1>4, <2>4, <2>6
<1>5. \A n \in 0..Len(file) : Good(n)
  <2>1. ASSUME NEW n \in 0..(Len(file) - 1), n \in S PROVE n + 1 \in S
    <3>1. n + 1 \in Nat /\ Good(n)
      BY <2>1
    <3> QED BY <1>4, <3>1
  <2> HIDE DEF S
  <2>2. \A n \in 0..Len(file) : n \in S
    BY <1>0, <1>3, <2>1, InductionUpTo
  <2> QED BY <2>2 DEF S
<1>6. \A n \in 0..(Len(file) - 1) : n \in 0..Len(file)
  BY <1>0
<1> QED BY <1>2, <1>4, <1>5, <1>6

LEMMA GrownAlong ==
  ASSUME NEW R, NEW k \in Nat, \A n \in 0..(k-1) : Grown(R[n], R[n+1]), NEW m \in 0..k
  PROVE  Grown(R[m], R[k])
<1> DEFINE S == {n \in Nat : m <= n => Grown(R[m], R[n])}
<1>0. m \in Nat /\ Grown(R[m], R[m])
  BY SameGrown DEF Same
<1>1. 0 \in S
  BY <1>0
<1>2. ASSUME NEW n \in 0..(k-1), n \in S PROVE n + 1 \in S
  <2>1. n + 1 \in Nat /\ n \in Nat
    OBVIOUS
  <2>2. CASE m <= n
    <3>1. Grown(R[m], R[n]) /\ Grown(R[n], R[n+1])
      BY <1>2, <2>2
    <3>2. PICK a, b, c : a = R[m] /\ b = R[n] /\ c = R[n+1]
      OBVIOUS
    <3>3. Grown(a, c)
      BY <3>1, <3>2, GrownGrown
    <3> QED BY <2>1, <3>2, <3>3
  <2>3. CASE n + 1 = m
    BY <1>0, <2>1, <2>3
  <2>4. CASE n + 1 < m
    BY <1>0, <2>1, <2>4
  <2> QED BY <1>0, <2>1, <2>2, <2>3, <2>4
<1> HIDE DEF S
<1>3. \A n \in 0..k : n \in S
  BY <1>1, <1>2, InductionUpTo
<1> QED BY <1>0, <1>3 DEF S

\* A whole import leaves a well-formed store in which nothing is lost.
LEMMA ImportGrows ==
  ASSUME NEW st, Typed(st), NEW scene \in Scenes, NEW create, NEW file \in Seq(Elements),
         Room(st, Len(file)), NEW x, x = Import(st, scene, create, file)
  PROVE  /\ Typed(x) /\ Grown(st, x)
         /\ UniqueIn(st.bindings) => UniqueIn(x.bindings)
<1>0. Len(file) \in Nat /\ 0 \in 0..Len(file) /\ Len(file) \in 0..Len(file)
  BY FileIsSeq
<1>1. PICK R : R = ImportRuns(st, scene, create, file)
  OBVIOUS
<1>2. IsRun(R, st, scene, create, file) /\ x = R[Len(file)]
  BY <1>0, <1>1, ImportRunsUnfold DEF Import
<1>3. /\ Same(R[0], st)
      /\ \A n \in 0..Len(file) :
           Typed(R[n]) /\ (UniqueIn(st.bindings) => UniqueIn(R[n].bindings))
      /\ \A n \in 0..(Len(file) - 1) : Grown(R[n], R[n+1])
  BY <1>2, RunsTyped
<1>4. Grown(R[0], x)
  BY <1>0, <1>2, <1>3, GrownAlong
<1>5. Grown(st, x)
  BY <1>3, <1>4 DEF Grown, Same
<1> QED BY <1>0, <1>2, <1>3, <1>5

LEMMA StrippedIsImportable ==
  ASSUME NEW st, NEW file, Importable(st, file), NEW at
  PROVE  Importable(st, Stripped(file, at)) /\ Len(Stripped(file, at)) = Len(file)
<1>1. file \in Seq(Elements)
  BY DEF Importable
<1>2. Len(file) \in Nat /\ DOMAIN file = 1..Len(file) /\ \A n \in 1..Len(file) : file[n] \in Elements
  BY <1>1, FileIsSeq
<1>3. PICK new : new = Stripped(file, at)
  OBVIOUS
<1>4. new = [i \in 1..Len(file) |->
               IF i \in at THEN [file[i] EXCEPT !.identity = NoSubject] ELSE file[i]]
  BY <1>2, <1>3 DEF Stripped
<1>5. \A i \in 1..Len(file) :
        /\ [file[i] EXCEPT !.identity = NoSubject] \in Elements
        /\ [file[i] EXCEPT !.identity = NoSubject].identity = NoSubject
  BY <1>2 DEF Elements
<1>6. NoSubject \notin Subjects
  BY CanvasAssumption
<1>7. \A i \in 1..Len(file) :
        new[i] \in Elements /\ (new[i].identity \in Subjects => Knows(st, new[i].identity))
  BY <1>2, <1>4, <1>5, <1>6 DEF Importable
<1>8. new \in Seq(Elements) /\ DOMAIN new = 1..Len(file)
  BY <1>2, <1>4, <1>7
<1>9. Len(new) = Len(file)
  BY <1>2, <1>8, LenProperties
<1> QED BY <1>3, <1>7, <1>8, <1>9 DEF Importable

-----------------------------------------------------------------------------
(* The invariants.                                                          *)

\* What a step leaves of the store is well-formed.
LEMMA StoreStep ==
  ASSUME CanvasTypeOK, BindingsUnique, NEW x, Typed(x), Grown(Copy, x),
         UniqueIn(Copy.bindings) => UniqueIn(x.bindings),
         content' = x.content, bindings' = x.bindings, retired' = retired
  PROVE  CanvasTypeOK' /\ BindingsUnique'
<1>1. Copy.content = content /\ Copy.bindings = bindings
  BY DEF Copy
<1>2. Copy'.content = x.content
  BY DEF Copy
<1>3. UniqueIn(x.bindings)
  BY <1>1 DEF BindingsUnique, UniqueIn
<1>4. \A i \in DOMAIN bindings' : Knows(Copy', bindings'[i].subject)
  BY <1>2 DEF Typed, Knows
<1>5. retired' \subseteq {n \in Primitives : content'[n] # NoSubject}
  BY <1>1 DEF CanvasTypeOK, Grown
<1> QED BY <1>3, <1>4, <1>5 DEF CanvasTypeOK, BindingsUnique, UniqueIn, Typed

LEMMA ImportStep ==
  ASSUME CanvasTypeOK, BindingsUnique, NEW scene \in Scenes, NEW create, NEW file,
         Importable(Copy, file), ImportScene(scene, create, file)
  PROVE  CanvasTypeOK' /\ BindingsUnique'
<1>1. Typed(Copy)
  BY CopyTyped
<1>2. PICK x : x = Import(Copy, scene, create, file)
  OBVIOUS
<1>3. content' = x.content /\ bindings' = x.bindings /\ retired' = retired
  BY <1>2 DEF ImportScene
<1>4. Room(Copy, Len(file))
  BY DEF ImportScene, Enough, Room, Copy
<1>5. file \in Seq(Elements)
  BY DEF Importable
<1>6. Typed(x) /\ Grown(Copy, x) /\ (UniqueIn(Copy.bindings) => UniqueIn(x.bindings))
  BY <1>1, <1>2, <1>4, <1>5, ImportGrows
<1> QED BY <1>3, <1>6, StoreStep

\* Together as each import needs the subjects of the bindings to be there.
LEMMA CanvasInductive ==
  ASSUME CanvasTypeOK, BindingsUnique, [CanvasNext]_canvas
  PROVE  CanvasTypeOK' /\ BindingsUnique'
<1>0. Typed(Copy) /\ Copy.content = content /\ Copy'.content = content'
  BY CopyTyped DEF Copy
<1>1. ASSUME NEW text \in Texts, CreatePrimitive(text) PROVE CanvasTypeOK' /\ BindingsUnique'
  <2>1. PICK note : note = NextNote(content)
    OBVIOUS
  <2>0. Fresh(content) # {}
    <3>1. SUFFICES ASSUME Fresh(content) = {} PROVE FALSE
      OBVIOUS
    <3>2. Cardinality(Fresh(content)) = 0
      BY <3>1, FS_EmptySet
    <3>3. Spare \in Nat /\ Cardinality(Fresh(content)) > Spare
      BY <1>1, CanvasAssumption DEF CreatePrimitive
    <3> QED BY <3>2, <3>3
  <2>2. note \in Primitives /\ content[note] = NoSubject
    BY <2>0, <2>1, NextNoteIsFresh DEF Fresh
  <2>3. content' = [content EXCEPT ![note] = text] /\ bindings' = bindings /\ retired' = retired
    BY <1>1, <2>1 DEF CreatePrimitive
  <2>4. \A n \in Primitives : content[n] # NoSubject => content'[n] # NoSubject
    BY <2>2, <2>3 DEF CanvasTypeOK
  <2>5. content' \in [Primitives -> Texts \cup {NoSubject}]
    BY <2>2, <2>3 DEF CanvasTypeOK
  <2>6. \A i \in DOMAIN bindings : Knows(Copy', bindings[i].subject)
    BY <1>0, <2>4 DEF CanvasTypeOK, Knows
  <2> QED BY <2>3, <2>4, <2>5, <2>6 DEF CanvasTypeOK, BindingsUnique
<1>2. ASSUME NEW n \in Primitives, NEW text \in Texts, Reword(n, text)
      PROVE  CanvasTypeOK' /\ BindingsUnique'
  <2>1. content' = [content EXCEPT ![n] = text] /\ bindings' = bindings /\ retired' = retired
    BY <1>2 DEF Reword
  <2>2. NoSubject \notin Texts
    BY CanvasAssumption
  <2>3. content' \in [Primitives -> Texts \cup {NoSubject}]
    BY <2>1 DEF CanvasTypeOK
  <2>4. \A m \in Primitives : content[m] # NoSubject => content'[m] # NoSubject
    BY <2>1, <2>2 DEF CanvasTypeOK
  <2>5. \A i \in DOMAIN bindings : Knows(Copy', bindings[i].subject)
    BY <1>0, <2>4 DEF CanvasTypeOK, Knows
  <2> QED BY <2>1, <2>3, <2>4, <2>5 DEF CanvasTypeOK, BindingsUnique
<1>3. ASSUME NEW n \in Primitives, Retire(n) PROVE CanvasTypeOK' /\ BindingsUnique'
  BY <1>3 DEF Retire, CanvasTypeOK, BindingsUnique, Knows, Copy
<1>4. ASSUME NEW scene \in Scenes, NEW create \in BOOLEAN,
             \/ \E file \in FilesOf(scene) : ImportScene(scene, create, file)
             \/ LET file == Export(Copy, scene)
                IN ImportScene(scene, create, Stripped(file, DOMAIN file))
      PROVE  CanvasTypeOK' /\ BindingsUnique'
  <2>1. CASE \E file \in FilesOf(scene) : ImportScene(scene, create, file)
    BY <1>0, <2>1, FilesAreImportable, ImportStep
  <2>2. CASE LET file == Export(Copy, scene)
             IN ImportScene(scene, create, Stripped(file, DOMAIN file))
    <3>1. PICK file : file = Stripped(Export(Copy, scene), DOMAIN Export(Copy, scene))
      OBVIOUS
    <3>2. Importable(Copy, file)
      BY <1>0, <3>1, ExportIsImportable, StrippedIsImportable
    <3> QED BY <2>2, <3>1, <3>2, ImportStep
  <2> QED BY <1>4, <2>1, <2>2
<1>5. CASE UNCHANGED canvas
  BY <1>5 DEF canvas, CanvasTypeOK, BindingsUnique, Knows, Copy
<1> QED BY <1>1, <1>2, <1>3, <1>4, <1>5 DEF CanvasNext

LEMMA CanvasInvariants == CanvasSpec => [](CanvasTypeOK /\ BindingsUnique)
<1>1. CanvasInit => CanvasTypeOK /\ BindingsUnique
  BY DEF CanvasInit, CanvasTypeOK, BindingsUnique
<1>2. (CanvasTypeOK /\ BindingsUnique) /\ [CanvasNext]_canvas
      => (CanvasTypeOK /\ BindingsUnique)'
  BY CanvasInductive
<1> QED BY <1>1, <1>2, PTL DEF CanvasSpec

\* For any notes, texts and files: the bindings are well-formed, and each is of a
\* subject that is there (CanvasTypeOK).
THEOREM CanvasIsTyped == CanvasSpec => []CanvasTypeOK
BY CanvasInvariants, PTL

\* For any notes, texts and files, and after any imports: a subject is bound to the
\* same content once in a scene (append_binding, as import_excalidraw calls it).
THEOREM BindingsAreUnique == CanvasSpec => []BindingsUnique
BY CanvasInvariants, PTL

-----------------------------------------------------------------------------
(* What was imported is settled, and stays so.                              *)

\* The elements say the same: an import treats them alike.
Alike(e, f) == e.type = f.type /\ e.text = f.text /\ e.identity = f.identity

LEMMA SameShown ==
  ASSUME NEW st, NEW x, Same(x, st), NEW scene, NEW e, NEW f, e.type = f.type, e.text = f.text
  PROVE  Shown(x, scene, f) = Shown(st, scene, e)
<1>1. Fingerprint(f) = Fingerprint(e)
  BY DEF Fingerprint
<1>2. x.bindings = st.bindings
  BY DEF Same
<1> QED BY <1>1, <1>2 DEF Shown, Shows

LEMMA SameSettled ==
  ASSUME NEW st, NEW x, Same(x, st), NEW scene, NEW create, NEW e, NEW f, Alike(e, f),
         Settled(st, scene, create, e)
  PROVE  Settled(x, scene, create, f)
<1>1. Shown(x, scene, f) = Shown(st, scene, e)
  BY SameShown DEF Alike
<1>2. x.content = st.content
  BY DEF Same
<1> QED BY <1>1, <1>2 DEF Settled, Knows, Alike

LEMMA GrownSettled ==
  ASSUME NEW st, NEW x, Grown(st, x), NEW scene, NEW create, NEW e,
         e.identity \in Subjects => Knows(st, e.identity),
         Settled(st, scene, create, e)
  PROVE  Settled(x, scene, create, e)
<1>1. Shown(st, scene, e) \subseteq Shown(x, scene, e)
  BY GrownShows
<1>2. e.identity \notin Subjects => ~Knows(x, e.identity)
  BY DEF Knows, Subjects
<1> QED BY <1>1, <1>2 DEF Settled

\* After its import, an element is settled.
LEMMA ElementSettles ==
  ASSUME NEW st, Typed(st), NEW scene \in Scenes, NEW create, NEW e \in Elements, NEW x,
         Imported(x, st, scene, create, e), st.ok => Fresh(st.content) # {},
         ~Stopped(st, x), ~Stops(st, x, e)
  PROVE  Settled(x, scene, create, e)
<1>0. IsStore(st)
  BY DEF Typed
<1>1. \/ Stopped(st, x)
      \/ Stops(st, x, e)
      \/ Skips(st, x, scene, create, e)
      \/ Binds(st, x, scene, e)
      \/ TakesNote(st, x, scene, create, e)
  BY <1>0, ElementOutcome
<1>2. /\ IsStore(x) /\ TakesNoMore(st, x)
      /\ x.content \in [Primitives -> Texts \cup {NoSubject}]
      /\ \A n \in Primitives : st.content[n] # NoSubject => x.content[n] = st.content[n]
      /\ Same(x, st) \/ \E s \in Subjects : Gets(st, x, scene, e, s)
  BY ElementGets
<1>4. CASE Skips(st, x, scene, create, e)
  <2>1. Same(x, st) /\ Settled(st, scene, create, e) /\ Alike(e, e)
    BY <1>4 DEF Skips, Alike
  <2> QED BY <2>1, SameSettled
<1>5. CASE Binds(st, x, scene, e)
  <2>1. /\ e.identity \notin {NoSubject, Broken}
        /\ e.identity \notin Shown(st, scene, e) /\ Knows(st, e.identity)
        /\ x.content = st.content
        /\ x.bindings = Append(st.bindings, BindingOf(scene, e.identity, e, "custom-data"))
    BY <1>5 DEF Binds
  <2>2. e.identity \in Subjects /\ Knows(x, e.identity)
    BY <2>1 DEF Knows, Subjects
  <2>3. Gets(st, x, scene, e, e.identity)
    BY <2>1, <2>2 DEF Gets
  <2>4. e.identity \in Shown(x, scene, e)
    BY <1>2, <2>2, <2>3, GetsGrows
  <2> QED BY <2>1, <2>4 DEF Settled
<1>6. CASE TakesNote(st, x, scene, create, e)
  <2>1. st.ok /\ e.identity = NoSubject /\ Shown(st, scene, e) = {} /\ NoteBound(st, x, scene, e)
    BY <1>6 DEF TakesNote
  <2>2. Writes(st, x)
    BY <2>1, NoteGiven
  <2>3. PICK note : note = NextNote(st.content)
    OBVIOUS
  <2>4. x.bindings = Append(st.bindings, BindingOf(scene, note, e, "import"))
    BY <2>1, <2>3 DEF NoteBound
  <2>5. note \in Subjects /\ Knows(x, note)
    BY <2>2, <2>3 DEF Writes, Subjects
  <2>6. Gets(st, x, scene, e, note)
    BY <2>1, <2>4, <2>5 DEF Gets
  <2>7. note \in Shown(x, scene, e)
    BY <1>2, <2>5, <2>6, GetsGrows
  <2> QED BY <2>1, <2>7 DEF Settled
<1> QED BY <1>1, <1>4, <1>5, <1>6

\* A settled element changes nothing.
LEMMA SettledIsNoop ==
  ASSUME NEW st, IsStore(st), NEW scene, NEW create, NEW e, st.ok => Settled(st, scene, create, e),
         NEW x, Imported(x, st, scene, create, e)
  PROVE  IsStore(x) /\ Same(x, st)
<1>1. \/ Stopped(st, x)
      \/ Stops(st, x, e)
      \/ Skips(st, x, scene, create, e)
      \/ Binds(st, x, scene, e)
      \/ TakesNote(st, x, scene, create, e)
  BY ElementOutcome
<1>2. CASE Stopped(st, x) \/ Stops(st, x, e) \/ Skips(st, x, scene, create, e)
  BY <1>2 DEF Stopped, Stops, Skips, Same
<1>3. ~Binds(st, x, scene, e)
  BY DEF Binds, Settled
<1>4. ~TakesNote(st, x, scene, create, e)
  BY DEF TakesNote, Settled
<1> QED BY <1>1, <1>2, <1>3, <1>4

\* It is the broken element that an import stops at.
LEMMA StopsAtBroken ==
  ASSUME NEW st, IsStore(st), NEW scene, NEW create, NEW e,
         NEW x, Imported(x, st, scene, create, e)
  PROVE  /\ IsStore(x)
         /\ x.ok <=> (st.ok /\ e.identity # Broken)
         /\ ~x.ok => Same(x, st)
<1>1. \/ Stopped(st, x)
      \/ Stops(st, x, e)
      \/ Skips(st, x, scene, create, e)
      \/ Binds(st, x, scene, e)
      \/ TakesNote(st, x, scene, create, e)
  BY ElementOutcome
<1>2. NoSubject # Broken
  BY CanvasAssumption
<1>3. CASE Stopped(st, x)
  BY <1>3 DEF Stopped, Same
<1>4. CASE Stops(st, x, e)
  BY <1>4 DEF Stops
<1>5. CASE Skips(st, x, scene, create, e)
  BY <1>5 DEF Skips
<1>6. CASE Binds(st, x, scene, e)
  BY <1>6 DEF Binds
<1>7. CASE TakesNote(st, x, scene, create, e)
  <2>1. st.ok /\ e.identity = NoSubject /\ NoteBound(st, x, scene, e)
    BY <1>7 DEF TakesNote
  <2> QED BY <1>2, <2>1 DEF NoteBound
<1> QED BY <1>1, <1>3, <1>4, <1>5, <1>6, <1>7

\* Stores with the same content get the same from elements that are alike.
LEMMA SameElement ==
  ASSUME NEW st, NEW other, IsStore(st), IsStore(other), Same(st, other), st.ok, other.ok,
         NEW scene, NEW create, NEW e,
         NEW x, Imported(x, st, scene, create, e),
         NEW y, Imported(y, other, scene, create, e)
  PROVE  Same(x, y)
<1>1. \/ Stopped(st, x)
      \/ Stops(st, x, e)
      \/ Skips(st, x, scene, create, e)
      \/ Binds(st, x, scene, e)
      \/ TakesNote(st, x, scene, create, e)
  BY ElementOutcome
<1>2. \/ Stopped(other, y)
      \/ Stops(other, y, e)
      \/ Skips(other, y, scene, create, e)
      \/ Binds(other, y, scene, e)
      \/ TakesNote(other, y, scene, create, e)
  BY ElementOutcome
<1>3. Shown(st, scene, e) = Shown(other, scene, e)
  BY DEF Same, Shown
<1>4. Settled(st, scene, create, e) <=> Settled(other, scene, create, e)
  BY <1>3 DEF Settled, Same, Knows
<1>5. Binds(st, x, scene, e) => ~Settled(st, scene, create, e)
  BY DEF Binds, Settled
<1>6. TakesNote(st, x, scene, create, e) => ~Settled(st, scene, create, e)
  BY DEF TakesNote, Settled
<1>7. Binds(other, y, scene, e) => ~Settled(other, scene, create, e)
  BY DEF Binds, Settled
<1>8. TakesNote(other, y, scene, create, e) => ~Settled(other, scene, create, e)
  BY DEF TakesNote, Settled
<1>9. NoSubject # Broken
  BY CanvasAssumption
<1>10. ~Stopped(st, x) /\ ~Stopped(other, y)
  BY DEF Stopped
<1>11. CASE e.identity = Broken
  <2>1. Stops(st, x, e) /\ Stops(other, y, e)
    BY <1>1, <1>2, <1>9, <1>10, <1>11 DEF Skips, Binds, TakesNote
  <2> QED BY <2>1 DEF Stops, Same
<1>12. CASE e.identity # Broken /\ Settled(st, scene, create, e)
  <2>1. Skips(st, x, scene, create, e) /\ Skips(other, y, scene, create, e)
    BY <1>1, <1>2, <1>4, <1>5, <1>6, <1>7, <1>8, <1>10, <1>12 DEF Stops
  <2> QED BY <2>1 DEF Skips, Same
<1>13. CASE e.identity # Broken /\ ~Settled(st, scene, create, e) /\ e.identity # NoSubject
  <2>1. Binds(st, x, scene, e) /\ Binds(other, y, scene, e)
    BY <1>1, <1>2, <1>4, <1>10, <1>13 DEF Stops, Skips, TakesNote
  <2> QED BY <2>1 DEF Binds, Same
<1>14. CASE e.identity # Broken /\ ~Settled(st, scene, create, e) /\ e.identity = NoSubject
  <2>1. TakesNote(st, x, scene, create, e) /\ TakesNote(other, y, scene, create, e)
    BY <1>1, <1>2, <1>4, <1>10, <1>14 DEF Stops, Skips, Binds
  <2>2. NoteBound(st, x, scene, e) /\ NoteBound(other, y, scene, e)
    BY <2>1 DEF TakesNote
  <2> QED BY <2>2 DEF NoteBound, Same
<1> QED BY <1>11, <1>12, <1>13, <1>14

-----------------------------------------------------------------------------
(* Imports, up to and from a broken element.                                *)

Unbroken(file, n) == \A i \in 1..n : file[i].identity # Broken

LEMMA UnbrokenNext ==
  ASSUME NEW file, NEW n \in Nat
  PROVE  /\ Unbroken(file, n + 1) <=> (Unbroken(file, n) /\ file[n+1].identity # Broken)
         /\ Unbroken(file, 0)
<1>1. \A i : i \in 1..(n+1) <=> (i \in 1..n \/ i = n + 1)
  OBVIOUS
<1>2. \A i : i \notin 1..0
  OBVIOUS
<1> QED BY <1>1, <1>2 DEF Unbroken

\* An import is that of the elements before the first that is broken.
LEMMA RunsStop ==
  ASSUME NEW st, IsStore(st), NEW scene, NEW create, NEW file, Len(file) \in Nat,
         NEW R, IsRun(R, st, scene, create, file)
  PROVE  \A n \in 0..Len(file) :
           /\ IsStore(R[n])
           /\ R[n].ok <=> Unbroken(file, n)
           /\ ~Unbroken(file, n) => n > 0 /\ Same(R[n], R[n-1])
<1>1. /\ R[0] = [st EXCEPT !.ok = TRUE, !.report = << >>]
      /\ \A n \in 1..Len(file) : Imported(R[n], R[n-1], scene, create, file[n])
  BY DEF IsRun
<1>2. IsStore(R[0]) /\ R[0].ok
  BY <1>1, RunStarts
<1> DEFINE Good(n) == /\ IsStore(R[n])
                      /\ R[n].ok <=> Unbroken(file, n)
                      /\ ~Unbroken(file, n) => n > 0 /\ Same(R[n], R[n-1])
           S == {n \in Nat : Good(n)}
<1>3. 0 \in S
  BY <1>2, UnbrokenNext
<1>4. ASSUME NEW n \in 0..(Len(file) - 1), n \in S PROVE n + 1 \in S
  <2>1. n \in Nat /\ n + 1 \in 1..Len(file) /\ (n + 1) - 1 = n /\ n + 1 > 0 /\ n + 1 \in Nat
    OBVIOUS
  <2>2. PICK a, x, e : a = R[n] /\ x = R[n+1] /\ e = file[n+1]
    OBVIOUS
  <2>3. IsStore(a) /\ (a.ok <=> Unbroken(file, n))
    BY <1>4, <2>2
  <2>4. Imported(x, a, scene, create, e)
    BY <1>1, <2>1, <2>2
  <2>5. /\ IsStore(x) /\ (x.ok <=> (a.ok /\ e.identity # Broken))
        /\ ~x.ok => Same(x, a)
    BY <2>3, <2>4, StopsAtBroken
  <2>6. Unbroken(file, n + 1) <=> (Unbroken(file, n) /\ e.identity # Broken)
    BY <2>1, <2>2, UnbrokenNext
  <2>7. Good(n + 1)
    BY <2>1, <2>2, <2>3, <2>5, <2>6
  <2> QED BY <2>1, <2>7
<1> HIDE DEF S
<1>5. \A n \in 0..Len(file) : n \in S
  BY <1>3, <1>4, InductionUpTo
<1> QED BY <1>5 DEF S

\* Every element before the first broken one is settled in the end, and in what
\* the store grows into.
LEMMA RunsSettle ==
  ASSUME NEW st, Typed(st), NEW scene \in Scenes, NEW create, NEW file, Importable(st, file),
         Room(st, Len(file)), NEW R, IsRun(R, st, scene, create, file),
         NEW n \in 1..Len(file), Unbroken(file, n), NEW k \in n..Len(file)
  PROVE  Settled(R[k], scene, create, file[n])
<1>0. /\ file \in Seq(Elements) /\ Len(file) \in Nat /\ DOMAIN file = 1..Len(file)
      /\ \A i \in 1..Len(file) : file[i] \in Elements
  BY FileIsSeq DEF Importable
<1>1. /\ n \in Nat /\ k \in Nat /\ n - 1 \in Nat /\ n - 1 \in 0..Len(file)
      /\ n \in 0..Len(file) /\ k \in 0..Len(file) /\ n \in 0..k
      /\ n - 1 \in 0..(Len(file) - 1) /\ (n - 1) + 1 = n /\ n - 1 \in 0..k /\ 0 \in 0..(n-1)
      /\ Len(file) - (n - 1) \in Nat /\ Len(file) - (n - 1) > 0
  BY <1>0
<1>2. /\ Same(R[0], st)
      /\ \A i \in 0..Len(file) : Typed(R[i]) /\ Room(R[i], Len(file) - i)
      /\ \A i \in 0..(Len(file) - 1) : Grown(R[i], R[i+1])
  BY <1>0, RunsTyped
<1>3. Typed(st) => IsStore(st)
  BY DEF Typed
<1>4. \A i \in 0..Len(file) : R[i].ok <=> Unbroken(file, i)
  BY <1>0, <1>3, RunsStop
<1>5. Unbroken(file, n - 1)
  BY <1>1, UnbrokenNext
<1>6. Imported(R[n], R[n-1], scene, create, file[n])
  BY DEF IsRun
<1>7. PICK a, x, e, y : a = R[n-1] /\ x = R[n] /\ e = file[n] /\ y = R[k]
  OBVIOUS
<1>8. Room(a, Len(file) - (n - 1))
  BY <1>1, <1>2, <1>7
<1>9. a.ok => Fresh(a.content) # {}
  BY <1>1, <1>8, RoomIsFresh
<1>10. /\ Typed(a) /\ e \in Elements /\ Imported(x, a, scene, create, e)
       /\ ~Stopped(a, x) /\ ~Stops(a, x, e)
  BY <1>0, <1>1, <1>2, <1>4, <1>5, <1>6, <1>7 DEF Stopped, Stops
<1>11. Settled(x, scene, create, e)
  BY <1>9, <1>10, ElementSettles
<1>12. Grown(x, y)
  <2>1. \A i \in 0..(k-1) : Grown(R[i], R[i+1])
    BY <1>0, <1>1, <1>2
  <2> QED BY <1>1, <1>7, <2>1, GrownAlong
<1>13. Grown(R[0], x)
  <2>1. \A i \in 0..(n-1) : Grown(R[i], R[i+1])
    BY <1>0, <1>1, <1>2
  <2>2. 0 \in 0..n
    BY <1>1
  <2> QED BY <1>1, <1>7, <2>1, <2>2, GrownAlong
<1>14. Grown(st, x)
  BY <1>2, <1>13 DEF Grown, Same
<1>15. e.identity \in Subjects => Knows(x, e.identity)
  <2>1. e.identity \in Subjects => Knows(st, e.identity)
    BY <1>0, <1>7 DEF Importable
  <2> QED BY <1>14, <2>1, GrownKnows
<1>16. Settled(y, scene, create, e)
  BY <1>11, <1>12, <1>15, GrownSettled
<1> QED BY <1>7, <1>16

\* An import of elements that are settled, up to the first broken one, is a no-op.
LEMMA SettledRuns ==
  ASSUME NEW st, IsStore(st), NEW scene, NEW create, NEW file, Len(file) \in Nat,
         NEW R, IsRun(R, st, scene, create, file), NEW k \in 0..Len(file),
         \A n \in 1..k : Unbroken(file, n) => Settled(st, scene, create, file[n])
  PROVE  \A n \in 0..k : Same(R[n], st)
<1>1. /\ R[0] = [st EXCEPT !.ok = TRUE, !.report = << >>]
      /\ \A n \in 1..Len(file) : Imported(R[n], R[n-1], scene, create, file[n])
  BY DEF IsRun
<1>2. \A n \in 0..Len(file) :
        /\ IsStore(R[n])
        /\ R[n].ok <=> Unbroken(file, n)
        /\ ~Unbroken(file, n) => n > 0 /\ Same(R[n], R[n-1])
  BY RunsStop
<1> DEFINE S == {n \in Nat : Same(R[n], st)}
<1>3. 0 \in S
  BY <1>1, RunStarts
<1>4. ASSUME NEW n \in 0..(k-1), n \in S PROVE n + 1 \in S
  <2>1. /\ n \in Nat /\ n + 1 \in 1..Len(file) /\ (n + 1) - 1 = n /\ n + 1 \in Nat
        /\ n \in 0..Len(file) /\ n + 1 \in 0..Len(file) /\ n + 1 \in 1..k
    OBVIOUS
  <2>2. PICK a, x, e : a = R[n] /\ x = R[n+1] /\ e = file[n+1]
    OBVIOUS
  <2>3. IsStore(a) /\ Same(a, st) /\ Imported(x, a, scene, create, e)
    BY <1>1, <1>2, <1>4, <2>1, <2>2
  <2>4. CASE Unbroken(file, n + 1)
    <3>1. Settled(st, scene, create, e) /\ Alike(e, e)
      BY <2>1, <2>2, <2>4 DEF Alike
    <3>2. Settled(a, scene, create, e)
      BY <2>3, <3>1, SameSettled
    <3>3. Same(x, a)
      BY <2>3, <3>2, SettledIsNoop
    <3> QED BY <2>1, <2>2, <2>3, <3>3 DEF Same
  <2>5. CASE ~Unbroken(file, n + 1)
    <3>1. Same(x, a)
      BY <1>2, <2>1, <2>2, <2>5
    <3> QED BY <2>1, <2>2, <2>3, <3>1 DEF Same
  <2> QED BY <2>4, <2>5
<1> HIDE DEF S
<1>5. \A n \in 0..k : n \in S
  BY <1>3, <1>4, InductionUpTo
<1> QED BY <1>5 DEF S

-----------------------------------------------------------------------------
(* To import a file again, whatever became of its ids and identities.       *)

LEMMA ImportAt ==
  ASSUME NEW st, NEW scene, NEW create, NEW file, Len(file) \in Nat
  PROVE  \E R : IsRun(R, st, scene, create, file) /\ Import(st, scene, create, file) = R[Len(file)]
<1>1. PICK R : R = ImportRuns(st, scene, create, file)
  OBVIOUS
<1>2. IsRun(R, st, scene, create, file) /\ Import(st, scene, create, file) = R[Len(file)]
  BY <1>1, ImportRunsUnfold DEF Import
<1> QED BY <1>2

LEMMA SettledImport ==
  ASSUME NEW st, IsStore(st), NEW scene, NEW create, NEW file, Len(file) \in Nat,
         \A n \in 1..Len(file) : Unbroken(file, n) => Settled(st, scene, create, file[n])
  PROVE  Same(Import(st, scene, create, file), st)
<1>1. PICK R : IsRun(R, st, scene, create, file) /\ Import(st, scene, create, file) = R[Len(file)]
  BY ImportAt
<1>2. Len(file) \in 0..Len(file)
  OBVIOUS
<1>3. \A n \in 0..Len(file) : Same(R[n], st)
  BY <1>1, <1>2, SettledRuns
<1> QED BY <1>1, <1>2, <1>3

\* After a whole import, its elements are settled.
LEMMA ImportSettles ==
  ASSUME NEW st, Typed(st), NEW scene \in Scenes, NEW create, NEW file, Importable(st, file),
         Room(st, Len(file)), NEW once, once = Import(st, scene, create, file)
  PROVE  /\ Typed(once) /\ Grown(st, once)
         /\ \A n \in 1..Len(file) :
              Unbroken(file, n) => Settled(once, scene, create, file[n])
<1>0. file \in Seq(Elements) /\ Len(file) \in Nat
  BY FileIsSeq DEF Importable
<1>1. PICK R : IsRun(R, st, scene, create, file) /\ Import(st, scene, create, file) = R[Len(file)]
  BY <1>0, ImportAt
<1>2. Typed(once) /\ Grown(st, once)
  BY <1>0, ImportGrows
<1>3. ASSUME NEW n \in 1..Len(file), Unbroken(file, n)
      PROVE  Settled(R[Len(file)], scene, create, file[n])
  <2>1. Len(file) \in n..Len(file)
    BY <1>0
  <2> QED BY <1>1, <1>3, <2>1, RunsSettle
<1> QED BY <1>1, <1>2, <1>3

\* To renumber the shapes changes nothing of what the elements say.
LEMMA RenumberedIsAlike ==
  ASSUME NEW file \in Seq(Elements)
  PROVE  /\ Len(Renumbered(file)) = Len(file)
         /\ \A n \in 1..Len(file) : Alike(file[n], Renumbered(file)[n])
<1>1. Len(file) \in Nat /\ DOMAIN file = 1..Len(file) /\ \A n \in 1..Len(file) : file[n] \in Elements
  BY FileIsSeq
<1>2. PICK new : new = Renumbered(file)
  OBVIOUS
<1>3. new = [i \in 1..Len(file) |-> [file[i] EXCEPT !.id = file[Len(file) + 1 - i].id]]
  BY <1>1, <1>2 DEF Renumbered
<1>4. Len(new) = Len(file)
  BY <1>1, <1>3, LenProperties
<1>5. ASSUME NEW n \in 1..Len(file) PROVE Alike(file[n], new[n])
  <2>1. PICK id : id = file[Len(file) + 1 - n].id
    OBVIOUS
  <2>2. new[n] = [file[n] EXCEPT !.id = id] /\ file[n] \in Elements
    BY <1>1, <1>3, <2>1
  <2> QED BY <2>2 DEF Alike, Elements
<1> QED BY <1>2, <1>4, <1>5

LEMMA StrippedElements ==
  ASSUME NEW file \in Seq(Elements), NEW at
  PROVE  \A n \in 1..Len(file) :
           LET e == file[n]
               f == Stripped(file, at)[n]
           IN f.type = e.type /\ f.text = e.text /\ f.identity \in {e.identity, NoSubject}
<1>1. Len(file) \in Nat /\ DOMAIN file = 1..Len(file) /\ \A n \in 1..Len(file) : file[n] \in Elements
  BY FileIsSeq
<1> QED BY <1>1 DEF Stripped, Elements

LEMMA AlikeUnbroken ==
  ASSUME NEW file, NEW again, NEW k \in Nat, \A n \in 1..k : Alike(file[n], again[n]),
         NEW n \in 1..k
  PROVE  Unbroken(again, n) => Unbroken(file, n)
BY DEF Unbroken, Alike

\* A shape whose identity is known shows its subject once it is imported; it may lose
\* its identity, as then its content says what it is.
LEMMA StrippedIsSettled ==
  ASSUME NEW st, NEW once, Grown(st, once), NEW scene, NEW create, NEW e, NEW f,
         f.type = e.type, f.text = e.text, f.identity \in {e.identity, NoSubject},
         e.identity = NoSubject \/ Knows(st, e.identity),
         Settled(once, scene, create, e)
  PROVE  /\ Settled(once, scene, create, f)
         /\ e.identity # NoSubject => e.identity \in Shown(once, scene, f)
<1>1. Shown(once, scene, f) = Shown(once, scene, e)
  <2>1. Same(once, once)
    BY DEF Same
  <2> QED BY <2>1, SameShown
<1>2. e.identity # NoSubject => Knows(once, e.identity)
  BY GrownKnows
<1>3. e.identity # NoSubject => e.identity \in Shown(once, scene, f)
  BY <1>1, <1>2 DEF Settled
<1>4. CASE e.identity = NoSubject
  BY <1>1, <1>4 DEF Settled
<1>5. CASE e.identity # NoSubject
  <2>1. Shown(once, scene, f) # {} /\ e.identity \in Shown(once, scene, f)
    BY <1>3, <1>5
  <2>2. f.identity = e.identity \/ f.identity = NoSubject
    OBVIOUS
  <2> QED BY <1>3, <2>1, <2>2 DEF Settled
<1> QED BY <1>3, <1>4, <1>5

LEMMA IdentitiesAreUnbroken ==
  ASSUME NEW file \in Seq(Elements), IdentitiesKnown(file), NEW n \in 1..Len(file)
  PROVE  /\ file[n].identity = NoSubject \/ Knows(Copy, file[n].identity)
         /\ Unbroken(file, n)
<1>1. Len(file) \in Nat /\ DOMAIN file = 1..Len(file)
  BY FileIsSeq
<1>2. \A i \in 1..Len(file) : file[i].identity = NoSubject \/ Knows(Copy, file[i].identity)
  BY <1>1 DEF IdentitiesKnown
<1>3. ~Knows(Copy, Broken) /\ NoSubject # Broken
  BY CanvasAssumption DEF Knows, Subjects
<1>4. \A i \in 1..Len(file) : file[i].identity # Broken
  BY <1>2, <1>3
<1>5. \A i \in 1..n : i \in 1..Len(file)
  BY <1>1
<1> QED BY <1>2, <1>4, <1>5 DEF Unbroken

LEMMA EnoughIsRoom ==
  ASSUME NEW file, Enough(file)
  PROVE  Room(Copy, Len(file))
BY DEF Enough, Room, Copy

LEMMA ReimportHolds ==
  ASSUME CanvasTypeOK
  PROVE  ReimportIsNoop
<1> SUFFICES ASSUME NEW scene \in Scenes, NEW create \in BOOLEAN, NEW file \in FilesOf(scene),
                    Enough(file), NEW once, once = Import(Copy, scene, create, file)
             PROVE  /\ Same(Import(once, scene, create, Renumbered(file)), once)
                    /\ IdentitiesKnown(file) =>
                         \A at \in SUBSET DOMAIN file :
                           Same(Import(once, scene, create, Stripped(file, at)), once)
  BY DEF ReimportIsNoop
<1>1. Typed(Copy) /\ Importable(Copy, file)
  BY CopyTyped, FilesAreImportable
<1>2. file \in Seq(Elements) /\ Len(file) \in Nat
  BY <1>1, FileIsSeq DEF Importable
<1>3. Room(Copy, Len(file))
  BY <1>2, EnoughIsRoom
<1>4. /\ Typed(once) /\ Grown(Copy, once)
      /\ \A n \in 1..Len(file) : Unbroken(file, n) => Settled(once, scene, create, file[n])
  BY <1>1, <1>3, ImportSettles
<1>5. IsStore(once)
  BY <1>4 DEF Typed
<1>6. Same(Import(once, scene, create, Renumbered(file)), once)
  <2>1. PICK new : new = Renumbered(file)
    OBVIOUS
  <2>2. Len(new) = Len(file) /\ \A n \in 1..Len(file) : Alike(file[n], new[n])
    BY <1>2, <2>1, RenumberedIsAlike
  <2>3. ASSUME NEW n \in 1..Len(new), Unbroken(new, n) PROVE Settled(once, scene, create, new[n])
    <3>1. Unbroken(file, n) /\ n \in 1..Len(file)
      BY <1>2, <2>2, <2>3, AlikeUnbroken
    <3>2. PICK e, f : e = file[n] /\ f = new[n]
      OBVIOUS
    <3>3. Settled(once, scene, create, e) /\ Alike(e, f) /\ Same(once, once)
      BY <1>4, <2>2, <3>1, <3>2 DEF Same
    <3> QED BY <3>2, <3>3, SameSettled
  <2> QED BY <1>2, <1>5, <2>1, <2>2, <2>3, SettledImport
<1>7. ASSUME IdentitiesKnown(file), NEW at \in SUBSET DOMAIN file
      PROVE  Same(Import(once, scene, create, Stripped(file, at)), once)
  <2>1. PICK new : new = Stripped(file, at)
    OBVIOUS
  <2>2. Len(new) = Len(file)
    BY <1>1, <2>1, StrippedIsImportable
  <2>3. ASSUME NEW n \in 1..Len(new) PROVE Settled(once, scene, create, new[n])
    <3>1. PICK e, f : e = file[n] /\ f = new[n]
      OBVIOUS
    <3>2. f.type = e.type /\ f.text = e.text /\ f.identity \in {e.identity, NoSubject}
      BY <1>2, <2>1, <2>2, <3>1, StrippedElements
    <3>3. /\ e.identity = NoSubject \/ Knows(Copy, e.identity)
          /\ Settled(once, scene, create, e)
      BY <1>2, <1>4, <1>7, <2>2, <3>1, IdentitiesAreUnbroken
    <3> QED BY <1>4, <3>1, <3>2, <3>3, StrippedIsSettled
  <2> QED BY <1>2, <1>5, <2>1, <2>2, <2>3, SettledImport
<1> QED BY <1>6, <1>7

\* For any files and whatever is in the scene: to import a file a second time, with the
\* ids of its shapes renumbered, or with any of its known identities stripped, changes
\* nothing (import_excalidraw).
THEOREM ReimportsAreNoops == CanvasSpec => []ReimportIsNoop
BY CanvasIsTyped, ReimportHolds, PTL

-----------------------------------------------------------------------------
(* To mend a file and import it again.                                      *)

LEMMA MendedElements ==
  ASSUME NEW file \in Seq(Elements)
  PROVE  /\ Len(Mended(file)) = Len(file)
         /\ \A n \in 1..Len(file) :
              /\ Mended(file)[n].identity # Broken
              /\ file[n].identity # Broken => Mended(file)[n] = file[n]
<1>1. Len(file) \in Nat /\ DOMAIN file = 1..Len(file) /\ \A n \in 1..Len(file) : file[n] \in Elements
  BY FileIsSeq
<1>2. PICK new : new = Mended(file)
  OBVIOUS
<1>3. new = [i \in 1..Len(file) |->
               IF file[i].identity = Broken THEN [file[i] EXCEPT !.identity = NoSubject] ELSE file[i]]
  BY <1>1, <1>2 DEF Mended
<1>4. Len(new) = Len(file)
  BY <1>1, <1>3, LenProperties
<1>5. NoSubject # Broken
  BY CanvasAssumption
<1>6. ASSUME NEW n \in 1..Len(file)
      PROVE  new[n].identity # Broken /\ (file[n].identity # Broken => new[n] = file[n])
  <2>1. CASE file[n].identity = Broken
    BY <1>1, <1>3, <1>5, <2>1 DEF Elements
  <2>2. CASE file[n].identity # Broken
    BY <1>3, <2>2
  <2> QED BY <2>1, <2>2
<1> QED BY <1>2, <1>4, <1>6

\* Once it has met the broken element, an import changes nothing more.
LEMMA StoppedRuns ==
  ASSUME NEW st, IsStore(st), NEW scene, NEW create, NEW file, Len(file) \in Nat,
         NEW R, IsRun(R, st, scene, create, file),
         NEW m \in 0..Len(file), \A n \in 0..Len(file) : m < n => ~Unbroken(file, n)
  PROVE  Same(R[Len(file)], R[m])
<1> DEFINE S == {n \in Nat : m <= n => Same(R[n], R[m])}
<1>1. \A n \in 0..Len(file) : ~Unbroken(file, n) => n > 0 /\ Same(R[n], R[n-1])
  BY RunsStop
<1>2. 0 \in S
  BY DEF Same
<1>3. ASSUME NEW n \in 0..(Len(file) - 1), n \in S PROVE n + 1 \in S
  <2>1. n \in Nat /\ n + 1 \in 0..Len(file) /\ (n + 1) - 1 = n /\ n + 1 \in Nat
    OBVIOUS
  <2>2. CASE m <= n
    <3>1. m < n + 1
      BY <2>1, <2>2
    <3>2. Same(R[n+1], R[n]) /\ Same(R[n], R[m])
      BY <1>1, <1>3, <2>1, <2>2, <3>1
    <3>3. Same(R[n+1], R[m])
      BY <3>2 DEF Same
    <3> QED BY <2>1, <3>3
  <2>3. CASE ~(m <= n)
    <3>1. m <= n + 1 => m = n + 1
      BY <2>1, <2>3
    <3>2. Same(R[m], R[m])
      BY DEF Same
    <3> QED BY <2>1, <3>1, <3>2
  <2> QED BY <2>2, <2>3
<1> HIDE DEF S
<1>4. \A n \in 0..Len(file) : n \in S
  BY <1>2, <1>3, InductionUpTo
<1>5. m <= Len(file) /\ Len(file) \in 0..Len(file)
  OBVIOUS
<1> QED BY <1>4, <1>5 DEF S

\* The elements before the first that is broken.
LEMMA FirstBroken ==
  ASSUME NEW file, Len(file) \in Nat
  PROVE  \E m \in 0..Len(file) :
           /\ Unbroken(file, m)
           /\ \A n \in 0..Len(file) : m < n => ~Unbroken(file, n)
<1> DEFINE S == {n \in 0..Len(file) : ~Unbroken(file, n)}
<1>1. CASE S = {}
  <2>1. Unbroken(file, Len(file)) /\ Len(file) \in 0..Len(file)
    BY <1>1
  <2>2. \A n \in 0..Len(file) : ~(Len(file) < n)
    OBVIOUS
  <2> QED BY <2>1, <2>2
<1>2. CASE S # {}
  <2>0. S \in SUBSET Nat
    OBVIOUS
  <2>1. PICK n \in S : \A k \in S : ~(k < n)
    BY <1>2, <2>0, Least
  <2>2. n \in 0..Len(file) /\ ~Unbroken(file, n) /\ n # 0
    BY <2>1, UnbrokenNext
  <2>3. n - 1 \in 0..Len(file) /\ n - 1 < n
    BY <2>2
  <2>4. Unbroken(file, n - 1)
    BY <2>1, <2>3
  <2>5. ASSUME NEW k \in 0..Len(file), n - 1 < k PROVE ~Unbroken(file, k)
    <3>1. \A i \in 1..n : i \in 1..k
      BY <2>2, <2>5
    <3> QED BY <2>2, <3>1 DEF Unbroken
  <2> QED BY <2>3, <2>4, <2>5
<1> QED BY <1>1, <1>2

\* Imports of files that begin alike begin alike.
BeginAlike(file, other, m) ==
  Len(other) = Len(file) /\ \A n \in 1..m : other[n] = file[n]

LEMMA SameBeginning ==
  ASSUME NEW st, IsStore(st), NEW scene, NEW create, NEW file, NEW other,
         Len(file) \in Nat, NEW m \in 0..Len(file), BeginAlike(file, other, m),
         NEW R, IsRun(R, st, scene, create, file), NEW P, IsRun(P, st, scene, create, other)
  PROVE  P[m] = R[m]
<1> DEFINE S == {n \in Nat : P[n] = R[n]}
<1>1. 0 \in S
  BY DEF IsRun
<1>2. ASSUME NEW n \in 0..(m-1), n \in S PROVE n + 1 \in S
  <2>1. n + 1 \in Nat /\ n + 1 \in 1..Len(file) /\ n + 1 \in 1..m /\ (n + 1) - 1 = n
    OBVIOUS
  <2>2. /\ Imported(R[n+1], R[n], scene, create, file[n+1])
        /\ Imported(P[n+1], P[n], scene, create, other[n+1])
    BY <2>1 DEF IsRun, BeginAlike
  <2>3. P[n] = R[n] /\ other[n+1] = file[n+1]
    BY <1>2, <2>1 DEF BeginAlike
  <2> QED BY <2>1, <2>2, <2>3 DEF Imported
<1> HIDE DEF S
<1>3. \A n \in 0..m : n \in S
  BY <1>1, <1>2, InductionUpTo
<1>4. m \in 0..m
  OBVIOUS
<1> QED BY <1>3, <1>4 DEF S

\* Imports that are at the same point in the same store end in the same.
LEMMA SameEnd ==
  ASSUME NEW st, IsStore(st), NEW other, IsStore(other), NEW scene, NEW create, NEW file,
         Len(file) \in Nat, Unbroken(file, Len(file)),
         NEW R, IsRun(R, st, scene, create, file), NEW P, IsRun(P, other, scene, create, file),
         NEW m \in 0..Len(file), Same(R[m], P[m])
  PROVE  Same(R[Len(file)], P[Len(file)])
<1> DEFINE S == {n \in Nat : m <= n => Same(R[n], P[n])}
<1>1. \A n \in 0..Len(file) : IsStore(R[n]) /\ (R[n].ok <=> Unbroken(file, n))
  BY RunsStop
<1>2. \A n \in 0..Len(file) : IsStore(P[n]) /\ (P[n].ok <=> Unbroken(file, n))
  BY RunsStop
<1>3. \A n \in 0..Len(file) : Unbroken(file, n)
  BY DEF Unbroken
<1>4. 0 \in S
  <2>1. m <= 0 => m = 0
    OBVIOUS
  <2> QED BY <2>1
<1>5. ASSUME NEW n \in 0..(Len(file) - 1), n \in S PROVE n + 1 \in S
  <2>1. n \in Nat /\ n \in 0..Len(file) /\ n + 1 \in 1..Len(file) /\ (n + 1) - 1 = n /\ n + 1 \in Nat
    OBVIOUS
  <2>2. CASE m <= n
    <3>1. PICK a, b, x, y, e : a = R[n] /\ b = P[n] /\ x = R[n+1] /\ y = P[n+1] /\ e = file[n+1]
      OBVIOUS
    <3>2. Imported(x, a, scene, create, e) /\ Imported(y, b, scene, create, e)
      BY <2>1, <3>1 DEF IsRun
    <3>3. Same(a, b) /\ IsStore(a) /\ IsStore(b) /\ a.ok /\ b.ok
      BY <1>1, <1>2, <1>3, <1>5, <2>1, <2>2, <3>1
    <3>4. Same(x, y)
      BY <3>2, <3>3, SameElement
    <3> QED BY <2>1, <3>1, <3>4
  <2>3. CASE ~(m <= n)
    <3>1. m <= n + 1 => m = n + 1
      BY <2>1, <2>3
    <3> QED BY <2>1, <3>1
  <2> QED BY <2>2, <2>3
<1> HIDE DEF S
<1>6. \A n \in 0..Len(file) : n \in S
  BY <1>4, <1>5, InductionUpTo
<1>7. m <= Len(file) /\ Len(file) \in 0..Len(file)
  OBVIOUS
<1> QED BY <1>6, <1>7 DEF S

LEMMA RetryHolds ==
  ASSUME CanvasTypeOK
  PROVE  RetryCompletes
<1> SUFFICES ASSUME NEW scene \in Scenes, NEW create \in BOOLEAN, NEW file \in FilesOf(scene),
                    Enough(file), NEW failed, failed = Import(Copy, scene, create, file)
             PROVE  Same(Import(failed, scene, create, Mended(file)),
                         Import(Copy, scene, create, Mended(file)))
  BY DEF RetryCompletes
<1>1. Typed(Copy) /\ Importable(Copy, file) /\ IsStore(Copy)
  BY CopyTyped, FilesAreImportable DEF Typed
<1>2. file \in Seq(Elements) /\ Len(file) \in Nat
  BY <1>1, FileIsSeq DEF Importable
<1>3. Room(Copy, Len(file))
  BY <1>2, EnoughIsRoom
<1>4. /\ Typed(failed) /\ IsStore(failed)
      /\ \A n \in 1..Len(file) : Unbroken(file, n) => Settled(failed, scene, create, file[n])
  BY <1>1, <1>3, ImportSettles DEF Typed
<1>5. PICK new : new = Mended(file)
  OBVIOUS
<1>6. /\ Len(new) = Len(file)
      /\ \A n \in 1..Len(file) :
           new[n].identity # Broken /\ (file[n].identity # Broken => new[n] = file[n])
  BY <1>2, <1>5, MendedElements
<1>7. Unbroken(new, Len(new))
  BY <1>6 DEF Unbroken
<1>8. PICK m \in 0..Len(file) :
        /\ Unbroken(file, m)
        /\ \A n \in 0..Len(file) : m < n => ~Unbroken(file, n)
  BY <1>2, FirstBroken
<1>9. \A n \in 1..m : n \in 1..Len(file) /\ Unbroken(file, n) /\ new[n] = file[n]
  <2>1. \A n \in 1..m : n \in 1..Len(file) /\ \A i \in 1..n : i \in 1..m
    BY <1>2
  <2> QED BY <1>6, <1>8, <2>1 DEF Unbroken
\* The failed import, the import of the mended file, and that after the failed one.
<1>10. PICK R : IsRun(R, Copy, scene, create, file) /\ failed = R[Len(file)]
  BY <1>2, ImportAt
<1>11. PICK P : /\ IsRun(P, Copy, scene, create, new)
                /\ Import(Copy, scene, create, new) = P[Len(new)]
  BY <1>2, <1>6, ImportAt
<1>12. PICK Q : /\ IsRun(Q, failed, scene, create, new)
                /\ Import(failed, scene, create, new) = Q[Len(new)]
  BY <1>2, <1>6, ImportAt
<1>13. Same(failed, R[m])
  BY <1>1, <1>2, <1>8, <1>10, StoppedRuns
<1>14. P[m] = R[m]
  <2>1. Len(new) = Len(file) /\ \A n \in 1..m : new[n] = file[n]
    BY <1>6, <1>9
  <2>2. IsRun(R, Copy, scene, create, file) /\ IsRun(P, Copy, scene, create, new)
    BY <1>10, <1>11
  <2>3. BeginAlike(file, new, m)
    BY <2>1 DEF BeginAlike
  <2>4. PICK c : c = Copy
    OBVIOUS
  <2>5. IsRun(R, c, scene, create, file) /\ IsRun(P, c, scene, create, new) /\ IsStore(c)
    BY <1>1, <2>2, <2>4
  <2> QED BY <1>2, <2>3, <2>5, SameBeginning
<1>15. Same(Q[m], failed)
  <2>1. m \in 0..Len(new) /\ m \in 0..m /\ Len(new) \in Nat
    BY <1>2, <1>6
  <2>2. \A n \in 1..m : Settled(failed, scene, create, new[n])
    BY <1>4, <1>9
  <2>3. \A n \in 0..m : Same(Q[n], failed)
    BY <1>4, <1>12, <2>1, <2>2, SettledRuns
  <2> QED BY <2>1, <2>3
<1>16. Same(Q[m], P[m])
  BY <1>13, <1>14, <1>15 DEF Same
<1>17. Same(Q[Len(new)], P[Len(new)])
  <2>1. m \in 0..Len(new) /\ Len(new) \in Nat
    BY <1>2, <1>6
  <2> QED BY <1>1, <1>4, <1>7, <1>11, <1>12, <1>16, <2>1, SameEnd
<1> QED BY <1>5, <1>11, <1>12, <1>17

\* For any files: after an import that failed at a broken element, the import of the
\* mended file leaves what a single import of it would have (import_excalidraw, which
\* appends as it goes).
THEOREM RetriesComplete == CanvasSpec => []RetryCompletes
BY CanvasIsTyped, RetryHolds, PTL

-----------------------------------------------------------------------------
(* What an import takes a shape without identity for.                       *)

LEMMA ShownIsFinite ==
  ASSUME NEW st, Typed(st), NEW scene, NEW e
  PROVE  IsFiniteSet(Shown(st, scene, e))
<1> DEFINE D == {j \in DOMAIN st.bindings : Shows(st.bindings[j], scene, e)}
           f == [j \in D |-> st.bindings[j].subject]
<1>1. DOMAIN st.bindings = 1..Len(st.bindings) /\ Len(st.bindings) \in Nat
  BY LenProperties DEF Typed
<1>2. IsFiniteSet(1..Len(st.bindings)) /\ D \subseteq 1..Len(st.bindings)
  BY <1>1, FS_Interval
<1>3. IsFiniteSet(D)
  <2> HIDE DEF D
  <2> QED BY <1>2, FS_Subset
<1>4. Shown(st, scene, e) = {st.bindings[j].subject : j \in D}
  BY DEF Shown
<1>5. f \in Surjection(D, Shown(st, scene, e))
  <2> HIDE DEF D
  <2> QED BY <1>4 DEF Surjection
<1> HIDE DEF D, f
<1> QED BY <1>3, <1>5, FS_Surjection

Answer(st, scene, e) ==
  IF Cardinality(Shown(st, scene, e)) = 1
  THEN [how |-> "skipped", subject |-> CHOOSE s \in Shown(st, scene, e) : TRUE]
  ELSE [how |-> "unbound", subject |-> NoSubject]

\* An element without identity when no notes are wanted.
LEMMA NamelessElement ==
  ASSUME NEW st, IsStore(st), st.ok, NEW scene, NEW e, e.identity = NoSubject,
         NEW x, Imported(x, st, scene, FALSE, e)
  PROVE  x = Reported(st, Answer(st, scene, e).how, Answer(st, scene, e).subject)
<1>1. NoSubject # Broken /\ Cardinality({}) = 0
  BY CanvasAssumption, FS_EmptySet
<1>2. x = IF Shown(st, scene, e) # {} THEN ByContent(st, scene, e)
          ELSE Reported(st, "unbound", NoSubject)
  BY <1>1 DEF Imported, ImportElement
<1>3. CASE Cardinality(Shown(st, scene, e)) = 1
  <2>1. Shown(st, scene, e) # {}
    BY <1>1, <1>3
  <2>2. x = Reported(st, "skipped", CHOOSE s \in Shown(st, scene, e) : TRUE)
    BY <1>2, <1>3, <2>1 DEF ByContent
  <2>3. /\ Answer(st, scene, e).how = "skipped"
        /\ Answer(st, scene, e).subject = CHOOSE s \in Shown(st, scene, e) : TRUE
    BY <1>3 DEF Answer
  <2> QED BY <2>2, <2>3
<1>4. CASE Cardinality(Shown(st, scene, e)) # 1
  <2>1. x = Reported(st, "unbound", NoSubject)
    BY <1>2, <1>4 DEF ByContent
  <2>2. Answer(st, scene, e).how = "unbound" /\ Answer(st, scene, e).subject = NoSubject
    BY <1>4 DEF Answer
  <2> QED BY <2>1, <2>2
<1> QED BY <1>3, <1>4

LEMMA SameAnswer ==
  ASSUME NEW st, NEW x, Same(x, st), NEW scene, NEW e
  PROVE  Answer(x, scene, e) = Answer(st, scene, e)
<1>1. Shown(x, scene, e) = Shown(st, scene, e)
  BY SameShown
<1> QED BY <1>1 DEF Answer

LEMMA AnswerIsRecord ==
  ASSUME NEW st, NEW scene, NEW e, NEW how, how = Answer(st, scene, e).how,
         NEW s, s = Answer(st, scene, e).subject
  PROVE  [how |-> how, subject |-> s] = Answer(st, scene, e)
BY DEF Answer

Nameless(file) == \A n \in 1..Len(file) : file[n].identity = NoSubject

\* One answer for each of the first n elements.
Answered(x, st, scene, file, n) ==
  x.report = [i \in 1..n |-> Answer(st, scene, file[i])]

LEMMA NamelessRuns ==
  ASSUME NEW st, IsStore(st), NEW scene, NEW file, Len(file) \in Nat,
         Nameless(file),
         NEW create, create = FALSE, NEW R, IsRun(R, st, scene, create, file)
  PROVE  \A n \in 0..Len(file) : Answered(R[n], st, scene, file, n)
<1>1. /\ R[0] = [st EXCEPT !.ok = TRUE, !.report = << >>]
      /\ \A n \in 1..Len(file) : Imported(R[n], R[n-1], scene, create, file[n])
  BY DEF IsRun
<1>2. IsStore(R[0]) /\ Same(R[0], st) /\ R[0].ok /\ R[0].report = << >>
  BY <1>1, RunStarts
<1> DEFINE A(i) == Answer(st, scene, file[i])
           Good(n) == /\ IsStore(R[n]) /\ Same(R[n], st) /\ R[n].ok
                      /\ R[n].report = [i \in 1..n |-> A(i)]
           S == {n \in Nat : Good(n)}
<1>3. 0 \in S
  <2>1. << >> = [i \in 1..0 |-> A(i)]
    <3> HIDE DEF A
    <3> QED OBVIOUS
  <2> HIDE DEF A
  <2> QED BY <1>2, <2>1
<1>4. ASSUME NEW n \in 0..(Len(file) - 1), n \in S PROVE n + 1 \in S
  <2>1. n \in Nat /\ n + 1 \in 1..Len(file) /\ (n + 1) - 1 = n /\ n + 1 \in Nat
    OBVIOUS
  <2>2. PICK a, x, e : a = R[n] /\ x = R[n+1] /\ e = file[n+1]
    OBVIOUS
  <2>3. PICK how, s : how = Answer(a, scene, e).how /\ s = Answer(a, scene, e).subject
    OBVIOUS
  <2>4. IsStore(a) /\ Same(a, st) /\ a.ok /\ a.report = [i \in 1..n |-> A(i)]
    <3> HIDE DEF A
    <3> QED BY <1>4, <2>2
  <2>5. e.identity = NoSubject /\ Imported(x, a, scene, FALSE, e)
    BY <1>1, <2>1, <2>2 DEF Nameless
  <2>6. x = Reported(a, how, s)
    BY <2>3, <2>4, <2>5, NamelessElement
  <2>7. /\ IsStore(x) /\ Same(x, a) /\ x.ok = a.ok
        /\ x.report = Append(a.report, [how |-> how, subject |-> s])
    <3> HIDE <2>3, <2>5
    <3>1. IsStore(x) /\ Same(x, a)
      BY <2>4, <2>6, ReportedIsSame
    <3>2. x.ok = a.ok
      BY <2>4, <2>6, ReportedIsSame
    <3>3. x.report = Append(a.report, [how |-> how, subject |-> s])
      BY <2>4, <2>6, ReportedIsSame
    <3> QED BY <3>1, <3>2, <3>3
  <2>8. [how |-> how, subject |-> s] = A(n + 1)
    BY <2>2, <2>3, <2>4, AnswerIsRecord, SameAnswer
  <2>9. x.report = [i \in 1..(n+1) |-> A(i)]
    <3> HIDE DEF A
    <3>1. x.report = Append([i \in 1..n |-> A(i)], A(n + 1))
      BY <2>4, <2>7, <2>8
    <3>2. Append([i \in 1..n |-> A(i)], A(n + 1)) = [i \in 1..(n+1) |-> A(i)]
      BY <2>1
    <3> QED BY <3>1, <3>2
  <2>10. Same(x, st)
    BY <2>4, <2>7 DEF Same
  <2> HIDE DEF A
  <2> QED BY <2>1, <2>2, <2>4, <2>7, <2>9, <2>10
<1> HIDE DEF S, Good
<1>5. \A n \in 0..Len(file) : n \in S
  BY <1>3, <1>4, InductionUpTo
<1>6. \A n \in 0..Len(file) : R[n].report = [i \in 1..n |-> A(i)]
  BY <1>5 DEF S, Good
<1> QED BY <1>6 DEF Answered

LEMMA NamelessImport ==
  ASSUME NEW st, IsStore(st), NEW scene, NEW file, Len(file) \in Nat, Nameless(file),
         NEW create, create = FALSE, NEW x, x = Import(st, scene, create, file)
  PROVE  Answered(x, st, scene, file, Len(file))
<1>1. PICK R : IsRun(R, st, scene, create, file) /\ x = R[Len(file)]
  BY ImportAt, Zenon
<1>2. Len(file) \in 0..Len(file)
  OBVIOUS
<1>3. \A n \in 0..Len(file) : Answered(R[n], st, scene, file, n)
  BY <1>1, NamelessRuns
<1> QED BY <1>1, <1>2, <1>3

\* What StrippedResolves says of one shape.
ResolvesAs(once, scene, e, answer) ==
  LET shared == \E j \in DOMAIN once.bindings :
        /\ once.bindings[j].scene = scene
        /\ once.bindings[j].fingerprint = Fingerprint(e)
        /\ once.bindings[j].subject # e.identity
  IN answer = IF shared THEN [how |-> "unbound", subject |-> NoSubject]
              ELSE [how |-> "skipped", subject |-> e.identity]

\* It is taken for its subject, if that is the only one that shows its content.
LEMMA AnswerResolves ==
  ASSUME NEW st, Typed(st), NEW scene, NEW e, NEW f, f.type = e.type, f.text = e.text,
         e.identity \in Shown(st, scene, f)
  PROVE  ResolvesAs(st, scene, e, Answer(st, scene, f))
<1> DEFINE shared == \E j \in DOMAIN st.bindings :
             /\ st.bindings[j].scene = scene
             /\ st.bindings[j].fingerprint = Fingerprint(e)
             /\ st.bindings[j].subject # e.identity
<1>1. PICK s, all : s = e.identity /\ all = Shown(st, scene, f)
  OBVIOUS
<1>2. IsFiniteSet(all) /\ s \in all
  BY <1>1, ShownIsFinite
<1>3. Fingerprint(f) = Fingerprint(e)
  BY DEF Fingerprint
<1>4. shared <=> \E t \in all : t # s
  BY <1>1, <1>3 DEF Shown, Shows
<1> HIDE DEF shared
<1>5. shared => Answer(st, scene, f) = [how |-> "unbound", subject |-> NoSubject]
  <2> SUFFICES ASSUME shared PROVE Answer(st, scene, f) = [how |-> "unbound", subject |-> NoSubject]
    OBVIOUS
  <2>1. Cardinality(all) # 1
    BY <1>2, <1>4, FS_Singleton
  <2> QED BY <1>1, <2>1 DEF Answer
<1>6. ~shared => Answer(st, scene, f) = [how |-> "skipped", subject |-> e.identity]
  <2> SUFFICES ASSUME ~shared PROVE Answer(st, scene, f) = [how |-> "skipped", subject |-> e.identity]
    OBVIOUS
  <2>1. all = {s}
    BY <1>2, <1>4
  <2>2. Cardinality(all) = 1 /\ (CHOOSE t \in all : TRUE) = s
    BY <2>1, FS_Singleton
  <2>3. Answer(st, scene, f) = [how |-> "skipped", subject |-> s]
    BY <1>1, <2>2 DEF Answer
  <2> QED BY <1>1, <2>3
<1> QED BY <1>5, <1>6 DEF ResolvesAs, shared

LEMMA StrippedIsNameless ==
  ASSUME NEW file, Importable(Copy, file)
  PROVE  Nameless(Stripped(file, DOMAIN file))
<1>1. /\ Len(file) \in Nat /\ DOMAIN file = 1..Len(file)
      /\ \A n \in 1..Len(file) : file[n] \in Elements
  BY FileIsSeq DEF Importable
<1>2. Len(Stripped(file, DOMAIN file)) = Len(file)
  BY StrippedIsImportable
<1>3. \A n \in 1..Len(file) : Stripped(file, DOMAIN file)[n].identity = NoSubject
  BY <1>1 DEF Stripped, Elements
<1> QED BY <1>2, <1>3 DEF Nameless

LEMMA StrippedResolvesAs ==
  ASSUME Typed(Copy), NEW scene \in Scenes, NEW file, Importable(Copy, file),
         Enough(file), IdentitiesKnown(file),
         NEW once, once = Import(Copy, scene, FALSE, file),
         NEW new, new = Stripped(file, DOMAIN file),
         NEW again, again = Import(once, scene, FALSE, new),
         NEW i \in DOMAIN file, file[i].identity # NoSubject
  PROVE  ResolvesAs(once, scene, file[i], again.report[i])
<1>2. file \in Seq(Elements) /\ Len(file) \in Nat /\ DOMAIN file = 1..Len(file)
  BY FileIsSeq DEF Importable
<1>3. Room(Copy, Len(file))
  BY <1>2, EnoughIsRoom
<1>4. /\ Typed(once) /\ Grown(Copy, once)
      /\ \A n \in 1..Len(file) : Unbroken(file, n) => Settled(once, scene, FALSE, file[n])
  BY <1>3, ImportSettles
<1>5. IsStore(once)
  BY <1>4 DEF Typed
<1>7. Len(new) = Len(file) /\ Len(new) \in Nat /\ Nameless(new)
  BY <1>2, StrippedIsImportable, StrippedIsNameless
<1>6. PICK create : create = FALSE
  OBVIOUS
<1>8. again = Import(once, scene, create, new)
  BY <1>6
<1>10. PICK e, f : e = file[i] /\ f = new[i]
  OBVIOUS
<1>12. f.type = e.type /\ f.text = e.text /\ f.identity \in {e.identity, NoSubject}
  BY <1>2, <1>10, StrippedElements
<1>9. Answered(again, once, scene, new, Len(new))
  BY <1>5, <1>6, <1>7, <1>8, NamelessImport
<1>11. again.report[i] = Answer(once, scene, f)
  BY <1>2, <1>7, <1>9, <1>10 DEF Answered
<1>13. /\ e.identity = NoSubject \/ Knows(Copy, e.identity)
       /\ Settled(once, scene, FALSE, e)
  BY <1>2, <1>4, <1>10, IdentitiesAreUnbroken
<1>14. e.identity \in Shown(once, scene, f)
  <2>1. e.identity # NoSubject
    BY <1>10, file[i].identity # NoSubject
  <2> QED BY <1>4, <1>12, <1>13, <2>1, StrippedIsSettled
<1>15. ResolvesAs(once, scene, e, Answer(once, scene, f))
  BY <1>4, <1>12, <1>14, AnswerResolves
<1> QED BY <1>10, <1>11, <1>15

LEMMA StrippedHolds ==
  ASSUME CanvasTypeOK
  PROVE  StrippedResolves
<1> SUFFICES ASSUME NEW scene \in Scenes, NEW file \in FilesOf(scene),
                    Enough(file) /\ IdentitiesKnown(file)
             PROVE  LET once  == Import(Copy, scene, FALSE, file)
                        again == Import(once, scene, FALSE, Stripped(file, DOMAIN file))
                    IN \A i \in DOMAIN file : file[i].identity # NoSubject =>
                         ResolvesAs(once, scene, file[i], again.report[i])
  BY Zenon DEF StrippedResolves, ResolvesAs
<1>1. Typed(Copy) /\ Importable(Copy, file)
  BY CopyTyped, FilesAreImportable
<1>2. PICK once : once = Import(Copy, scene, FALSE, file)
  OBVIOUS
<1>3. PICK new : new = Stripped(file, DOMAIN file)
  OBVIOUS
<1>4. PICK again : again = Import(once, scene, FALSE, new)
  OBVIOUS
<1>5. \A i \in DOMAIN file : file[i].identity # NoSubject =>
        ResolvesAs(once, scene, file[i], again.report[i])
  BY <1>1, <1>2, <1>3, <1>4, StrippedResolvesAs
<1> QED BY <1>2, <1>3, <1>4, <1>5, Zenon

\* For any files and whatever is in the scene: a shape that lost its identity is reported
\* as the subject it was bound to, or as bound to nothing where another subject of the
\* scene shows the same; never as another subject (import_excalidraw's content match).
THEOREM StrippedShapesResolve == CanvasSpec => []StrippedResolves
BY CanvasIsTyped, StrippedHolds, PTL
================================================================================
