--------------------------------- MODULE Canvas ---------------------------------
(***************************************************************************)
(* The free-form canvas: thinking primitives are subjects of the graph,    *)
(* and Excalidraw scenes are imported as durable bindings of a shape's     *)
(* content to a subject.  People export a scene, edit the file with any    *)
(* tool - which may renumber shapes and strip identities - and import it   *)
(* again; an import stops at the first broken element, and what it has     *)
(* appended until then stays.                                              *)
(*                                                                         *)
(* An import holds the store's write lock: it is one step.  Its appends    *)
(* cannot fail: every binding is new and its subject exists.               *)
(***************************************************************************)
EXTENDS Naturals, Sequences, FiniteSets

CONSTANTS
  Notes,      \* the primitives' ids, in the order in which they are given
  Others,     \* subjects that are there from the beginning, no primitives
  Strangers,  \* references to subjects that nobody knows here
  Scenes,
  Shapes,     \* ids of shapes
  Places,     \* geometries that people give to shapes
  Types,      \* shape types; exports have "text" only
  Texts,
  Normal,     \* a text with case and white space folded, "" if there is no more
  Files,      \* scenes that people draw
  NoSubject,  \* no identity, no content
  Broken,     \* an identity that is no reference
  NoPlace,    \* no geometry
  MaxBindings, \* bound: no import starts with this many bindings
  Spare        \* bound: people leave this many ids to imports

Primitives == {Notes[i] : i \in DOMAIN Notes}
Subjects == Primitives \cup Others

\* Where an export puts what has no place: on a grid, one after the other.
Grid == {<<"grid", i>> : i \in DOMAIN Notes}
AllPlaces == Grid \cup Places \cup {NoPlace}

\* A shape of a file.  What it says about its identity may be anything.
Element(id, type, text, identity, place) ==
  [id |-> id, type |-> type, text |-> text, identity |-> identity, place |-> place]
Elements ==
  [id : Shapes \cup Primitives, type : Types, text : Texts,
   identity : Subjects \cup Strangers \cup {NoSubject, Broken}, place : AllPlaces]

ASSUME CanvasAssumption ==
  /\ Notes \in Seq(Primitives)
  /\ \A i, j \in DOMAIN Notes : Notes[i] = Notes[j] => i = j
  /\ Primitives \cap Others = {} /\ Strangers \cap Subjects = {}
  /\ {NoSubject, Broken} \cap (Subjects \cup Strangers) = {} /\ NoSubject # Broken
  /\ "text" \in Types /\ NoSubject \notin Texts
  /\ Normal \in [Texts -> Texts \cup {""}]
  /\ Files \subseteq Seq(Elements)
  /\ Spare \in Nat

VARIABLES
  content,   \* the text of each primitive, NoSubject before it exists
  retired,   \* the deprecated primitives
  bindings   \* the bindings, in the order of their ids

canvas == <<content, retired, bindings>>

Fingerprints == Types \X {Normal[t] : t \in Texts}
Binding ==
  [subject : Subjects, scene : Scenes, shape : Shapes \cup Primitives,
   fingerprint : Fingerprints, place : AllPlaces, via : {"custom-data", "import"}]

Knows(st, s) == s \in Others \/ (s \in Primitives /\ st.content[s] # NoSubject)

\* The store as an import works on it, and what it reports.
Copy == [content |-> content, bindings |-> bindings, ok |-> TRUE, report |-> << >>]

CanvasTypeOK ==
  /\ content \in [Primitives -> Texts \cup {NoSubject}]
  /\ retired \subseteq {n \in Primitives : content[n] # NoSubject}
  /\ bindings \in Seq(Binding)
  /\ \A i \in DOMAIN bindings : Knows(Copy, bindings[i].subject)

CanvasInit ==
  /\ content = [n \in Primitives |-> NoSubject]
  /\ retired = {}
  /\ bindings = << >>

Fresh(contents) == {n \in Primitives : contents[n] = NoSubject}

\* Ids are given in their order.
NextNote(contents) ==
  Notes[CHOOSE i \in DOMAIN Notes :
          /\ contents[Notes[i]] = NoSubject
          /\ \A j \in 1..(i-1) : contents[Notes[j]] # NoSubject]

\* POST /canvas/subjects.
CreatePrimitive(text) ==
  /\ Cardinality(Fresh(content)) > Spare
  /\ content' = [content EXCEPT ![NextNote(content)] = text]
  /\ UNCHANGED <<retired, bindings>>

\* Events of other clients: a primitive gets another text, or is deprecated.
Reword(n, text) ==
  /\ content[n] \notin {NoSubject, text}
  /\ content' = [content EXCEPT ![n] = text]
  /\ UNCHANGED <<retired, bindings>>

Retire(n) ==
  /\ content[n] # NoSubject /\ n \notin retired
  /\ retired' = retired \cup {n}
  /\ UNCHANGED <<content, bindings>>

-----------------------------------------------------------------------------
(* The import of a file, element by element, on a copy of the store.        *)

Fingerprint(e) == <<e.type, Normal[e.text]>>

Reported(st, how, s) == [st EXCEPT !.report = Append(@, [how |-> how, subject |-> s])]

\* append_binding
Bound(st, scene, s, e, via) ==
  [st EXCEPT !.bindings = Append(@, [subject |-> s, scene |-> scene, shape |-> e.id,
      fingerprint |-> Fingerprint(e), place |-> e.place, via |-> via])]

\* Mutant of Shows: a binding is that of the shape.
ShowsShape(b, scene, e) == b.scene = scene /\ b.shape = e.id

\* The binding is that of the element's content in the scene.
Shows(b, scene, e) == b.scene = scene /\ b.fingerprint = Fingerprint(e)

Shown(st, scene, e) ==
  {st.bindings[i].subject : i \in {j \in DOMAIN st.bindings : Shows(st.bindings[j], scene, e)}}

\* Mutant of ByIdentity: what is there already is not looked up.
ByIdentityAlways(st, scene, e) ==
  IF ~Knows(st, e.identity) THEN Reported(st, "unknown", e.identity)
  ELSE Reported(Bound(st, scene, e.identity, e, "custom-data"), "bound", e.identity)

\* 1. The identity that the file carries wins.
ByIdentity(st, scene, e) ==
  IF e.identity \in Shown(st, scene, e) THEN Reported(st, "skipped", e.identity)
  ELSE IF ~Knows(st, e.identity) THEN Reported(st, "unknown", e.identity)
  ELSE Reported(Bound(st, scene, e.identity, e, "custom-data"), "bound", e.identity)

\* Mutant of ByContent: of several subjects, one is as good as the other.
ByContentGuess(st, scene, e) ==
  Reported(st, "skipped", CHOOSE s \in Shown(st, scene, e) : TRUE)

\* 2. Content that is bound already: to one subject, or nobody knows to which.
ByContent(st, scene, e) ==
  IF Cardinality(Shown(st, scene, e)) = 1
  THEN Reported(st, "skipped", CHOOSE s \in Shown(st, scene, e) : TRUE)
  ELSE Reported(st, "unbound", NoSubject)

\* Mutant of AsNote: the note is made and not bound.
AsNoteUnbound(st, scene, e) ==
  LET note == NextNote(st.content)
  IN Reported([st EXCEPT !.content[note] = e.text], "created", note)

\* 3. A new note, bound to the shape that it comes from.
AsNote(st, scene, e) ==
  LET note == NextNote(st.content)
  IN Reported(Bound([st EXCEPT !.content[note] = e.text], scene, note, e, "import"),
              "created", note)

ImportElement(st, scene, create, e) ==
  IF ~st.ok THEN st
  ELSE IF e.identity = Broken THEN [st EXCEPT !.ok = FALSE]
  ELSE IF e.identity # NoSubject THEN ByIdentity(st, scene, e)
  ELSE IF Shown(st, scene, e) # {} THEN ByContent(st, scene, e)
  ELSE IF create /\ Normal[e.text] # "" THEN AsNote(st, scene, e)
  ELSE Reported(st, "unbound", NoSubject)

\* import_excalidraw after the first n elements, for every n.
ImportRuns(st, scene, create, file) ==
  LET run[n \in 0..Len(file)] ==
        IF n = 0 THEN [st EXCEPT !.ok = TRUE, !.report = << >>]
        ELSE ImportElement(run[n-1], scene, create, file[n])
  IN run

Import(st, scene, create, file) == ImportRuns(st, scene, create, file)[Len(file)]

-----------------------------------------------------------------------------
(* The export: every primitive that is not deprecated, whatever the scene.  *)

\* The first k of all notes that an export shows, in the order of their ids.
Showing(st) ==
  LET shown[k \in 0..Len(Notes)] ==
        IF k = 0 THEN << >>
        ELSE IF st.content[Notes[k]] # NoSubject /\ Notes[k] \notin retired
        THEN Append(shown[k-1], Notes[k])
        ELSE shown[k-1]
  IN shown

PlaceOf(st, scene, n, i) ==
  LET own == {j \in DOMAIN st.bindings :
                st.bindings[j].subject = n /\ st.bindings[j].scene = scene}
      latest == CHOOSE j \in own : \A k \in own : k <= j
  IN IF own = {} \/ st.bindings[latest].place = NoPlace THEN <<"grid", i>>
     ELSE st.bindings[latest].place

\* export_excalidraw
Export(st, scene) ==
  LET shown == Showing(st)[Len(Notes)]
  IN [i \in 1..Len(shown) |->
        Element(shown[i], "text", st.content[shown[i]], shown[i],
                PlaceOf(st, scene, shown[i], i))]

\* What tools do to a file and still nobody has changed what it shows.
Stripped(file, at) ==
  [i \in DOMAIN file |-> IF i \in at THEN [file[i] EXCEPT !.identity = NoSubject] ELSE file[i]]
Renumbered(file) ==
  [i \in DOMAIN file |-> [file[i] EXCEPT !.id = file[Len(file) + 1 - i].id]]

\* The files that people have: those they drew, or got from an export.  None
\* has the identity of a primitive before it was given.
Given(file) == \A i \in DOMAIN file :
  file[i].identity \in Primitives => content[file[i].identity] # NoSubject
FilesOf(scene) == {file \in Files : Given(file)} \cup {Export(Copy, scene)}

\* Bound: enough ids are left to give each shape a note.
Enough(file) == Cardinality(Fresh(content)) >= Len(file)

ImportScene(scene, create, file) ==
  /\ Len(bindings) < MaxBindings /\ Enough(file)
  /\ LET done == Import(Copy, scene, create, file)
     IN content' = done.content /\ bindings' = done.bindings
  /\ UNCHANGED retired

CanvasNext ==
  \/ \E text \in Texts : CreatePrimitive(text)
  \/ \E n \in Primitives, text \in Texts : Reword(n, text)
  \/ \E n \in Primitives : Retire(n)
  \/ \E scene \in Scenes, create \in BOOLEAN :
       \/ \E file \in FilesOf(scene) : ImportScene(scene, create, file)
       \/ LET file == Export(Copy, scene)
          IN ImportScene(scene, create, Stripped(file, DOMAIN file))

CanvasSpec == CanvasInit /\ [][CanvasNext]_canvas

-----------------------------------------------------------------------------
Same(st, other) == st.content = other.content /\ st.bindings = other.bindings

IdentitiesKnown(file) ==
  \A i \in DOMAIN file : file[i].identity = NoSubject \/ Knows(Copy, file[i].identity)

\* "Re-importing a scene - with ids renumbered, or even with customData
\* stripped - is a no-op as long as the text stays the same" (excalidraw.rs), for
\* any file that was imported before, whatever was in the scene by then: if
\* the identities in it are known, any of them may be gone.
ReimportIsNoop ==
  \A scene \in Scenes, create \in BOOLEAN : \A file \in FilesOf(scene) :
    Enough(file) =>
      LET once == Import(Copy, scene, create, file)
      IN /\ Same(Import(once, scene, create, Renumbered(file)), once)
         /\ IdentitiesKnown(file) =>
              \A at \in SUBSET DOMAIN file :
                Same(Import(once, scene, create, Stripped(file, at)), once)

\* "Content still resolves to the same subject" and the import never guesses
\* (docs/EXCALIDRAW-BINDINGS.md): a shape that lost its identity is taken for what it
\* was bound to, unless another subject of the scene shows the same.
StrippedResolves ==
  \A scene \in Scenes : \A file \in FilesOf(scene) :
    Enough(file) /\ IdentitiesKnown(file) =>
      LET once  == Import(Copy, scene, FALSE, file)
          again == Import(once, scene, FALSE, Stripped(file, DOMAIN file))
      IN \A i \in DOMAIN file : file[i].identity # NoSubject =>
           LET shared == \E j \in DOMAIN once.bindings :
                 /\ once.bindings[j].scene = scene
                 /\ once.bindings[j].fingerprint = Fingerprint(file[i])
                 /\ once.bindings[j].subject # file[i].identity
           IN again.report[i] = IF shared THEN [how |-> "unbound", subject |-> NoSubject]
                                ELSE [how |-> "skipped", subject |-> file[i].identity]

\* A subject is bound to the same content once in a scene, however often, and in
\* how many copies, its shape was imported.
BindingsUnique ==
  \A i, j \in DOMAIN bindings :
    /\ bindings[i].subject = bindings[j].subject
    /\ bindings[i].scene = bindings[j].scene
    /\ bindings[i].fingerprint = bindings[j].fingerprint
    => i = j

Mended(file) ==
  [i \in DOMAIN file |-> IF file[i].identity = Broken
                         THEN [file[i] EXCEPT !.identity = NoSubject] ELSE file[i]]

\* An import that failed at a broken element has done a part of its work.
\* When the element is mended and the file imported again, the outcome is
\* that of a single import: nothing is missing and nothing is there twice.
RetryCompletes ==
  \A scene \in Scenes, create \in BOOLEAN : \A file \in FilesOf(scene) :
    Enough(file) =>
      Same(Import(Import(Copy, scene, create, file), scene, create, Mended(file)),
           Import(Copy, scene, create, Mended(file)))
=============================================================================
