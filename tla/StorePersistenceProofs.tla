----------------------- MODULE StorePersistenceProofs -----------------------
(***************************************************************************)
(* Proofs about StorePersistence, for any requests, any lengths of texts   *)
(* and chunks, and any number of overlapping writes, deaths and failures.  *)
(*                                                                         *)
(* What is added to the type invariant and to the properties says who may  *)
(* be writing in which state of the server, that a write without company   *)
(* carries the state in memory and has the file begin with as much of it   *)
(* as it has written, that nothing answered is ever missing from memory    *)
(* while no harm is done, and that a file which is not torn begins with    *)
(* one text.                                                               *)
(***************************************************************************)
EXTENDS StorePersistence, TLAPS

\* Requests write while the server is up, init before; nothing else does.
WritersMatchServer ==
    /\ server = "down" => UnderWay = {} /\ memory = {}
    /\ server = "starting" => memory = {}
    /\ \A w \in UnderWay \ {Boot} : server = "up" /\ w \in DOMAIN basis /\ w \in memory
    /\ Boot \in UnderWay => server = "starting"

\* The file is what a write has written so far.
HasWritten(w) ==
    /\ file.exists
    /\ writes[w].done <= Length[writes[w].text]
    /\ file.size = writes[w].done
    /\ \A i \in 1..file.size : file.units[i] = writes[w].text

LoneWriteCarriesMemory ==
    \A w \in UnderWay : writes[w].alone =>
        /\ UnderWay = {w}
        /\ writes[w].text = memory
        /\ writes[w].stage = "called" => writes[w].done = 0
        /\ writes[w].stage = "opened" => HasWritten(w)
        /\ writes[w].stage = "written" => file = Text(memory)

HarmlessSoFar ==
    harm = {} =>
        /\ \A w \in UnderWay : writes[w].alone
        /\ server # "down" => answered \subseteq memory

\* The inductive invariant behind the two properties of writes that are alone;
\* what restarts see rests on it too.
Quiet == WritersMatchServer /\ LoneWriteCarriesMemory /\ HarmlessSoFar /\ AnsweredIsOnFile

----------------------------------------------------------------------------
(* What the operators keep *)

IsFile(f) ==
    /\ f = [exists |-> f.exists, size |-> f.size, units |-> f.units]
    /\ f.exists \in BOOLEAN /\ f.size \in Nat
    /\ f.units \in [1..f.size -> Unit]

LEMMA LengthOfText ==
    ASSUME NEW text \in SUBSET Request
    PROVE  Length[text] \in Nat /\ Length[text] >= 2
  BY StoreAssumption

LEMMA HoleIsNoState == Hole \notin SUBSET Request
  BY StoreAssumption DEF Hole

LEMMA WholeFiles ==
    /\ IsFile(Absent) /\ IsFile(Empty)
    /\ \A text \in SUBSET Request : IsFile(Text(text))
  BY LengthOfText DEF IsFile, Absent, Empty, Text, Unit

\* Files with the same units are the same.
LEMMA SameFile ==
    ASSUME NEW f, NEW g, IsFile(f), IsFile(g), f.exists = g.exists, f.size = g.size,
           \A i \in 1..f.size : f.units[i] = g.units[i]
    PROVE  f = g
  <1>1. f.units = g.units
    BY DEF IsFile
  <1> QED
    BY <1>1 DEF IsFile

\* What writing a part of a text makes of the file.
LEMMA PartWritten ==
    ASSUME IsFile(file), NEW text \in SUBSET Request, NEW m \in Nat, NEW n \in Nat
    PROVE  /\ IsFile(WithPart(text, m, n))
           /\ WithPart(text, m, n).exists
           /\ WithPart(text, m, n).size = Max2(n, file.size)
           /\ \A i \in 1..Max2(n, file.size) :
                 WithPart(text, m, n).units[i] =
                    IF m < i /\ i <= n THEN text
                    ELSE IF i <= file.size THEN file.units[i]
                    ELSE Hole
  <1> DEFINE size == Max2(n, file.size)
             units == [i \in 1..size |-> IF m < i /\ i <= n THEN text
                                         ELSE IF i <= file.size THEN file.units[i]
                                         ELSE Hole]
  <1>1. size \in Nat
    BY DEF Max2, IsFile
  <1>2. \A i \in 1..size : i <= file.size => i \in 1..file.size
    BY <1>1 DEF IsFile
  <1>2a. \A i \in 1..size : i <= file.size => file.units[i] \in Unit
    BY <1>2 DEF IsFile
  <1>2b. text \in Unit /\ Hole \in Unit
    BY DEF Unit
  <1>3. units \in [1..size -> Unit]
    BY <1>2a, <1>2b
  <1>4. WithPart(text, m, n) = [exists |-> TRUE, size |-> size, units |-> units]
    BY DEF WithPart
  <1> HIDE DEF size
  <1>5. IsFile(WithPart(text, m, n))
    <2> HIDE DEF units
    <2> QED
      BY <1>1, <1>3, <1>4 DEF IsFile
  <1>6. \A i \in 1..size : units[i] = IF m < i /\ i <= n THEN text
                                      ELSE IF i <= file.size THEN file.units[i]
                                      ELSE Hole
    OBVIOUS
  <1> QED
    BY <1>4, <1>5, <1>6 DEF size

\* How far a chunk goes.
LEMMA ChunkGoes ==
    ASSUME TypeOK, NEW w \in Writer
    PROVE  /\ writes[w].text \in SUBSET Request /\ writes[w].done \in Nat
           /\ ChunkEnd(w) \in Nat /\ ChunkEnd(w) <= Length[writes[w].text]
           /\ writes[w].done <= Length[writes[w].text] => writes[w].done <= ChunkEnd(w)
  <1>1. writes[w] \in Write
    BY DEF TypeOK
  <1>2. writes[w].text \in SUBSET Request /\ writes[w].done \in Nat
    BY <1>1 DEF Write
  <1> QED
    BY <1>2, LengthOfText, StoreAssumption DEF ChunkEnd, Min2

\* A part that is put into the file makes a file of it.
LEMMA PartIsFile ==
    ASSUME TypeOK, NEW w \in Writer, NEW n \in Nat, PutPart(w, n)
    PROVE  IsFile(file') /\ torn' \in BOOLEAN
  <1>1. IsFile(file)
    BY DEF TypeOK, IsFile
  <1> QED
    BY <1>1, ChunkGoes, PartWritten DEF PutPart

LEMMA SomeIsFile ==
    ASSUME TypeOK, NEW w \in Writer, PutSome(w)
    PROVE  IsFile(file') /\ torn' \in BOOLEAN
  <1>1. PICK n \in writes[w].done + 1 .. ChunkEnd(w) - 1 : PutPart(w, n)
    BY DEF PutSome
  <1>2. n \in Nat
    BY <1>1, ChunkGoes
  <1> QED
    BY <1>1, <1>2, PartIsFile

\* What persist does to the calls under way.
LEMMA PersistedWrites ==
    ASSUME TypeOK, NEW v \in Writer, NEW text \in SUBSET Request, Persist(v, text)
    PROVE  /\ writes' \in [Writer -> Write]
           /\ writes'[v].stage = "called"
           /\ writes'[v].text = text
           /\ writes'[v].done = 0
           /\ writes'[v].alone = (UnderWay = {})
           /\ \A w \in Writer \ {v} :
                 /\ writes'[w].stage = writes[w].stage
                 /\ writes'[w].text = writes[w].text
                 /\ ~writes'[w].alone
           /\ UnderWay' = UnderWay \union {v}
           /\ Opened' = Opened \ {v}
           /\ harm' \subseteq harm \union {"overlap"}
           /\ harm' = {} => harm = {} /\ UnderWay = {}
  <1>1. DOMAIN writes = Writer /\ \A w \in Writer : writes[w] \in Write
    BY DEF TypeOK
  <1>2. \A w \in Writer : [writes[w] EXCEPT !.alone = FALSE] \in Write
    BY <1>1 DEF Write
  <1>3. [stage |-> "called", text |-> text, done |-> 0, alone |-> UnderWay = {}] \in Write
    BY DEF Write
  <1>4. writes' \in [Writer -> Write]
    BY <1>1, <1>2, <1>3 DEF Persist
  <1>5. writes'[v] = [stage |-> "called", text |-> text, done |-> 0,
                      alone |-> UnderWay = {}]
    BY <1>1 DEF Persist
  <1>6. \A w \in Writer \ {v} : /\ writes'[w].stage = writes[w].stage
                               /\ writes'[w].text = writes[w].text
                               /\ ~writes'[w].alone
    BY <1>1 DEF Persist, Write
  <1>7. UnderWay' = UnderWay \union {v}
    BY <1>5, <1>6 DEF UnderWay
  <1>8. Opened' = Opened \ {v}
    BY <1>5, <1>6 DEF Opened
  <1> QED
    BY <1>4, <1>5, <1>6, <1>7, <1>8 DEF Persist

\* What opening the file and writing a chunk do to the calls under way.
Moved(v, stage, n) ==
    writes' = [writes EXCEPT ![v].done = n, ![v].stage = stage]

LEMMA MovedWrites ==
    ASSUME TypeOK, NEW v \in UnderWay, NEW stage \in {"opened", "written"}, NEW n \in Nat,
           Moved(v, stage, n)
    PROVE  /\ writes' \in [Writer -> Write]
           /\ writes'[v].stage = stage
           /\ writes'[v].done = n
           /\ \A w \in Writer : writes'[w].text = writes[w].text
           /\ \A w \in Writer : writes'[w].alone = writes[w].alone
           /\ \A w \in Writer \ {v} : writes'[w] = writes[w]
           /\ UnderWay' = UnderWay
  <1>1. writes \in [Writer -> Write] /\ v \in Writer /\ writes[v].stage # "none"
    BY DEF TypeOK, UnderWay
  <1>2. writes' \in [Writer -> Write]
    BY <1>1 DEF Write, Moved
  <1>3. writes'[v].stage = stage
    BY <1>1 DEF Write, Moved
  <1>4. writes'[v].done = n
    BY <1>1 DEF Write, Moved
  <1>5. \A w \in Writer : writes'[w].text = writes[w].text
    BY <1>1 DEF Write, Moved
  <1>6. \A w \in Writer : writes'[w].alone = writes[w].alone
    BY <1>1 DEF Write, Moved
  <1>7. \A w \in Writer \ {v} : writes'[w] = writes[w]
    BY <1>1 DEF Write, Moved
  <1>8. UnderWay' = UnderWay
    <2>1. writes'[v].stage # "none"
      BY <1>3
    <2> QED
      BY <1>1, <2>1, <1>7, Zenon DEF UnderWay
  <1> QED
    BY <1>2, <1>3, <1>4, <1>5, <1>6, <1>7, <1>8

\* Opening the file.
LEMMA OpenedWrites ==
    ASSUME TypeOK, NEW v \in Writer, OpenFile(v)
    PROVE  /\ v \in UnderWay
           /\ writes' \in [Writer -> Write]
           /\ writes'[v].stage = "opened"
           /\ writes'[v].done = writes[v].done
           /\ \A w \in Writer : writes'[w].text = writes[w].text
           /\ \A w \in Writer : writes'[w].alone = writes[w].alone
           /\ UnderWay' = UnderWay
  <1>1. v \in UnderWay /\ writes[v].done \in Nat /\ "opened" \in {"opened", "written"}
    BY ChunkGoes DEF OpenFile, UnderWay
  <1>2. Moved(v, "opened", writes[v].done)
    <2>1. writes \in [Writer -> Write]
      BY DEF TypeOK
    <2> QED
      BY <2>1 DEF OpenFile, Write, Moved
  <1> QED
    BY <1>1, <1>2, MovedWrites, Zenon

\* Writing a chunk.
LEMMA ChunkWrites ==
    ASSUME TypeOK, NEW v \in Writer, WriteChunk(v)
    PROVE  /\ v \in UnderWay /\ v \in Opened
           /\ writes' \in [Writer -> Write]
           /\ writes'[v].done = ChunkEnd(v)
           /\ writes'[v].stage = IF ChunkEnd(v) = Length[writes[v].text]
                                 THEN "written" ELSE "opened"
           /\ \A w \in Writer : writes'[w].text = writes[w].text
           /\ \A w \in Writer : writes'[w].alone = writes[w].alone
           /\ UnderWay' = UnderWay
           /\ Opened' \subseteq Opened
           /\ Opened' = {} => writes'[v].stage = "written"
  <1> DEFINE stage == IF ChunkEnd(v) = Length[writes[v].text] THEN "written" ELSE "opened"
  <1>1. v \in UnderWay /\ v \in Opened /\ ChunkEnd(v) \in Nat /\ stage \in {"opened", "written"}
    BY ChunkGoes DEF WriteChunk, UnderWay, Opened
  <1>2. Moved(v, stage, ChunkEnd(v))
    <2>1. writes \in [Writer -> Write]
      BY DEF TypeOK
    <2>2. writes' = [writes EXCEPT ![v].done = ChunkEnd(v),
             ![v].stage = IF ChunkEnd(v) = Length[writes[v].text] THEN "written" ELSE @]
          /\ writes[v].stage = "opened"
      BY DEF WriteChunk
    <2> QED
      BY <2>1, <2>2 DEF Write, Moved
  <1> HIDE DEF stage
  <1>3. /\ writes' \in [Writer -> Write]
        /\ writes'[v].stage = stage
        /\ writes'[v].done = ChunkEnd(v)
        /\ \A w \in Writer : writes'[w].text = writes[w].text
        /\ \A w \in Writer : writes'[w].alone = writes[w].alone
        /\ \A w \in Writer \ {v} : writes'[w] = writes[w]
        /\ UnderWay' = UnderWay
    BY <1>1, <1>2, MovedWrites, Zenon
  <1>4. Opened' \subseteq Opened
    BY <1>1, <1>3 DEF Opened
  <1>5. Opened' = {} => writes'[v].stage = "written"
    BY <1>1, <1>3 DEF Opened
  <1> QED
    BY <1>1, <1>3, <1>4, <1>5 DEF stage

\* What a call's end does to them.
LEMMA EndedWrites ==
    ASSUME TypeOK, NEW v \in UnderWay, writes' = [writes EXCEPT ![v] = NoWrite]
    PROVE  /\ writes' \in [Writer -> Write]
           /\ \A w \in Writer \ {v} : writes'[w] = writes[w]
           /\ UnderWay' = UnderWay \ {v}
           /\ Opened' = Opened \ {v}
  <1>1. writes \in [Writer -> Write] /\ v \in Writer
    BY DEF TypeOK, UnderWay
  <1>2. NoWrite \in Write
    BY DEF NoWrite, Write
  <1>3. writes' \in [Writer -> Write]
    BY <1>1, <1>2
  <1>4. \A w \in Writer \ {v} : writes'[w] = writes[w]
    BY <1>1
  <1>5. writes'[v] = NoWrite
    BY <1>1
  <1>6. UnderWay' = UnderWay \ {v}
    BY <1>4, <1>5 DEF UnderWay, NoWrite
  <1>7. Opened' = Opened \ {v}
    BY <1>4, <1>5 DEF Opened, NoWrite
  <1> QED
    BY <1>3, <1>4, <1>6, <1>7

\* After a death nothing is under way.
LEMMA DroppedWrites ==
    ASSUME TypeOK, writes' = [w \in DOMAIN writes |-> NoWrite]
    PROVE  /\ writes' \in [Writer -> Write]
           /\ UnderWay' = {}
           /\ Opened' = {}
  <1>1. writes' = [w \in Writer |-> NoWrite]
    BY DEF TypeOK
  <1>2. NoWrite \in Write
    BY DEF NoWrite, Write
  <1> QED
    BY <1>1, <1>2 DEF UnderWay, Opened, NoWrite

----------------------------------------------------------------------------
(* Type correctness *)

LEMMA InitType == Init => TypeOK
  <1> SUFFICES ASSUME Init
               PROVE  TypeOK
    OBVIOUS
  <1>1. IsFile(file)
    BY WholeFiles DEF Init
  <1> QED
    BY <1>1 DEF Init, TypeOK, IsFile, NoWrite, Write

LEMMA StepType == TypeOK /\ [Next]_vars => TypeOK'
  <1> SUFFICES ASSUME TypeOK, [Next]_vars
               PROVE  TypeOK'
    OBVIOUS
  <1> USE DEF TypeOK
  <1>1. CASE StartEmpty
    <2>1. Boot \in Writer /\ {} \in SUBSET Request /\ Persist(Boot, {})
      BY <1>1 DEF StartEmpty, Writer
    <2>2. writes' \in [Writer -> Write] /\ harm' \subseteq harm \union {"overlap"}
      BY <2>1, PersistedWrites
    <2> QED
      BY <1>1, <2>2 DEF StartEmpty
  <1>2. CASE StartFromFile
    BY <1>2 DEF StartFromFile
  <1>3. ASSUME NEW r \in Request, Handle(r)
        PROVE  TypeOK'
    <2>1. r \in Writer /\ memory \union {r} \in SUBSET Request
          /\ Persist(r, memory \union {r})
      BY <1>3 DEF Handle, Writer
    <2>2. writes' \in [Writer -> Write] /\ harm' \subseteq harm \union {"overlap"}
      BY <2>1, PersistedWrites
    <2>3. DOMAIN basis' = DOMAIN basis \union {r}
          /\ basis' \in [DOMAIN basis' -> SUBSET Request]
      BY <1>3 DEF Handle
    <2> QED
      BY <1>3, <2>1, <2>2, <2>3 DEF Handle
  <1>4. ASSUME NEW w \in Writer, OpenFile(w)
        PROVE  TypeOK'
    <2>1. writes' \in [Writer -> Write]
      BY <1>4, OpenedWrites
    <2>2. IsFile(file')
      BY <1>4, WholeFiles DEF OpenFile
    <2> QED
      BY <1>4, <2>1, <2>2 DEF OpenFile, IsFile
  <1>5. ASSUME NEW w \in Writer, WriteChunk(w)
        PROVE  TypeOK'
    <2>1. writes' \in [Writer -> Write]
      BY <1>5, ChunkWrites
    <2>2. IsFile(file') /\ torn' \in BOOLEAN
      BY <1>5, ChunkGoes, PartIsFile DEF WriteChunk
    <2> QED
      BY <1>5, <2>1, <2>2 DEF WriteChunk, IsFile
  <1>6. ASSUME NEW w \in Writer, Return(w)
        PROVE  TypeOK'
    <2>1. w \in UnderWay
      BY <1>6 DEF Return, UnderWay
    <2>2. writes' \in [Writer -> Write]
      BY <1>6, <2>1, EndedWrites DEF Return
    <2> QED
      BY <1>6, <2>2 DEF Return, Writer
  <1>7. ASSUME NEW w \in Writer, WriteFails(w)
        PROVE  TypeOK'
    <2>1. writes' \in [Writer -> Write]
      BY <1>7, EndedWrites DEF WriteFails
    <2>2. IsFile(file') /\ torn' \in BOOLEAN
      BY <1>7, SomeIsFile DEF WriteFails, IsFile
    <2> QED
      BY <1>7, <2>1, <2>2 DEF WriteFails, IsFile
  <1>8. CASE Crash
    <2>1. writes' \in [Writer -> Write]
      BY <1>8, DroppedWrites DEF Crash
    <2>2. IsFile(file') /\ torn' \in BOOLEAN
      BY <1>8, SomeIsFile DEF Crash, IsFile, Opened
    <2> QED
      BY <1>8, <2>1, <2>2 DEF Crash, IsFile
  <1>9. CASE UNCHANGED vars
    BY <1>9 DEF vars, Write, Writer
  <1> QED
    BY <1>1, <1>2, <1>3, <1>4, <1>5, <1>6, <1>7, <1>8, <1>9 DEF Next

\* The state, the file and the writes under way keep their kinds, whatever
\* overlaps, fails or dies (state-store.js:138-155).
THEOREM TypeCorrect == Spec => []TypeOK
  BY InitType, StepType, PTL DEF Spec

----------------------------------------------------------------------------
(* Writes that are alone, and what was answered *)

\* From a whole text its state is loaded, and no other.
LEMMA TextLoads ==
    ASSUME NEW text \in SUBSET Request, file = Text(text),
           NEW state \in SUBSET Request, LoadsAs(state)
    PROVE  state = text
  <1>1. /\ file.size = Length[text]
        /\ \A i \in 1..file.size : file.units[i] = text
        /\ 1 \in 1..file.size
    BY LengthOfText DEF Text
  <1>2. ~Mixed
    BY <1>1 DEF Mixed
  <1>3. file.units[1] = state
    BY <1>2, LengthOfText DEF LoadsAs
  <1> QED
    BY <1>1, <1>3

LEMMA EmptyFileLoadsNothing ==
    ASSUME file.size = 0, NEW state \in SUBSET Request
    PROVE  ~LoadsAs(state)
  BY LengthOfText DEF LoadsAs, Mixed

\* A write that is alone lengthens what it has written.
LEMMA PartContinues ==
    ASSUME TypeOK, NEW w \in Writer, HasWritten(w), NEW n \in Nat, PutPart(w, n)
    PROVE  /\ file'.exists
           /\ file'.size = Max2(n, writes[w].done)
           /\ \A i \in 1..file'.size : file'.units[i] = writes[w].text
  <1>1. IsFile(file) /\ writes[w].text \in SUBSET Request /\ writes[w].done \in Nat
    BY ChunkGoes DEF TypeOK, IsFile
  <1>2. file' = WithPart(writes[w].text, writes[w].done, n)
    BY DEF PutPart
  <1>3. /\ file'.exists
        /\ file'.size = Max2(n, file.size)
        /\ \A i \in 1..Max2(n, file.size) :
              file'.units[i] = IF writes[w].done < i /\ i <= n THEN writes[w].text
                               ELSE IF i <= file.size THEN file.units[i]
                               ELSE Hole
    BY <1>1, <1>2, PartWritten
  <1> QED
    BY <1>1, <1>3 DEF HasWritten, Max2

LEMMA InitQuiet == Init => Quiet
  BY StoreAssumption
  DEF Init, Quiet, WritersMatchServer, LoneWriteCarriesMemory, HarmlessSoFar,
      AnsweredIsOnFile, UnderWay, Opened, NoWrite, Writer

\* A call of persist with nothing under way is alone and carries the state it
\* was given; with something under way, nothing is alone any more.
LEMMA PersistQuiet ==
    ASSUME TypeOK, Quiet, NEW v \in Writer, v \notin UnderWay,
           NEW text \in SUBSET Request, Persist(v, text),
           memory' = text, file' = file
    PROVE  LoneWriteCarriesMemory'
  <1>1. CASE UnderWay = {}
    <2>1. /\ UnderWay' = {v} /\ writes'[v].text = memory'
          /\ writes'[v].stage = "called" /\ writes'[v].done = 0
      BY <1>1, PersistedWrites
    <2> QED
      BY <2>1 DEF LoneWriteCarriesMemory
  <1>2. CASE UnderWay # {}
    <2>1. ~writes'[v].alone
      BY <1>2, PersistedWrites
    <2>2. \A w \in UnderWay' : ~writes'[w].alone
      BY <2>1, PersistedWrites DEF UnderWay
    <2> QED
      BY <2>2 DEF LoneWriteCarriesMemory
  <1> QED
    BY <1>1, <1>2

LEMMA StepQuiet == TypeOK /\ Quiet /\ [Next]_vars => Quiet'
  <1> SUFFICES ASSUME TypeOK, Quiet, [Next]_vars
               PROVE  Quiet'
    OBVIOUS
  <1> USE DEF Quiet
  <1>1. CASE StartEmpty
    <2>1. /\ Boot \in Writer /\ {} \in SUBSET Request /\ Persist(Boot, {})
          /\ UnderWay = {} /\ Boot \notin UnderWay
          /\ memory' = {} /\ file' = file /\ file = Absent
          /\ server' = "starting" /\ answered' = answered /\ basis' = basis
      BY <1>1 DEF StartEmpty, Writer, WritersMatchServer
    <2>2. /\ UnderWay' = {Boot} /\ Opened' = Opened \ {Boot} /\ writes'[Boot].alone
          /\ harm' = {} => harm = {}
      BY <2>1, PersistedWrites
    <2>3. LoneWriteCarriesMemory'
      BY <2>1, PersistQuiet
    <2>4. WritersMatchServer'
      BY <2>1, <2>2 DEF WritersMatchServer
    <2>5. harm = {} => answered = {}
      BY <2>1 DEF AnsweredIsOnFile, Opened, UnderWay, Absent, Text
    <2>6. HarmlessSoFar'
      BY <2>1, <2>2, <2>5 DEF HarmlessSoFar
    <2>7. AnsweredIsOnFile'
      BY <2>1, <2>2, <2>5 DEF AnsweredIsOnFile
    <2> QED
      BY <2>3, <2>4, <2>6, <2>7
  <1>2. CASE StartFromFile
    <2>0. PICK state \in SUBSET Request : LoadsAs(state) /\ memory' = state
      BY <1>2 DEF StartFromFile
    <2>1. /\ UnderWay' = UnderWay /\ UnderWay = {} /\ Opened' = Opened /\ Opened = {}
          /\ writes' = writes /\ harm \subseteq harm' /\ answered' = answered
          /\ server' = "up" /\ file' = file /\ basis' = basis
      BY <1>2 DEF StartFromFile, WritersMatchServer, UnderWay, Opened
    <2>2. file # Absent
      BY <2>0, EmptyFileLoadsNothing DEF Absent
    <2>3. harm' = {} => answered \subseteq state
      BY <2>0, <2>1, <2>2, TextLoads DEF AnsweredIsOnFile
    <2>4. WritersMatchServer'
      BY <2>1 DEF WritersMatchServer
    <2>5. LoneWriteCarriesMemory' /\ HarmlessSoFar'
      BY <2>0, <2>1, <2>3 DEF LoneWriteCarriesMemory, HarmlessSoFar
    <2>6. AnsweredIsOnFile'
      BY <2>1 DEF AnsweredIsOnFile
    <2> QED
      BY <2>4, <2>5, <2>6
  <1>3. ASSUME NEW r \in Request, Handle(r)
        PROVE  Quiet'
    <2>0. Boot # r /\ r \notin UnderWay
      BY <1>3, StoreAssumption DEF Handle, WritersMatchServer
    <2>1. /\ r \in Writer /\ memory \union {r} \in SUBSET Request
          /\ Persist(r, memory \union {r})
          /\ memory' = memory \union {r} /\ file' = file /\ answered' = answered
          /\ server = "up" /\ server' = "up"
          /\ DOMAIN basis' = DOMAIN basis \union {r}
      BY <1>3 DEF Handle, Writer, TypeOK
    <2>2. /\ UnderWay' = UnderWay \union {r} /\ Opened' = Opened \ {r}
          /\ harm' = {} => harm = {} /\ UnderWay = {}
          /\ UnderWay = {} => writes'[r].alone
      BY <2>1, PersistedWrites
    <2>3. LoneWriteCarriesMemory'
      BY <2>0, <2>1, PersistQuiet
    <2>5. WritersMatchServer'
      BY <2>0, <2>1, <2>2 DEF WritersMatchServer
    <2>6. HarmlessSoFar'
      BY <2>1, <2>2 DEF HarmlessSoFar
    <2>7. Opened' = {} => Opened = {}
      BY <2>0, <2>2 DEF Opened, UnderWay
    <2>8. AnsweredIsOnFile'
      BY <2>1, <2>2, <2>7 DEF AnsweredIsOnFile
    <2> QED
      BY <2>3, <2>5, <2>6, <2>8
  <1>4. ASSUME NEW w \in Writer, OpenFile(w)
        PROVE  Quiet'
    <2>1. /\ file' = Empty /\ harm' = harm /\ server' = server /\ memory' = memory
          /\ answered' = answered /\ basis' = basis /\ writes[w].stage = "called"
      BY <1>4 DEF OpenFile
    <2>2. /\ w \in UnderWay /\ UnderWay' = UnderWay
          /\ writes'[w].stage = "opened" /\ writes'[w].done = writes[w].done
          /\ \A v \in UnderWay : v \in Writer /\ writes'[v].text = writes[v].text
                               /\ writes'[v].alone = writes[v].alone
      BY <1>4, OpenedWrites DEF UnderWay
    <2>3. WritersMatchServer'
      BY <2>1, <2>2 DEF WritersMatchServer
    <2>4. writes[w].alone => HasWritten(w)'
      <3>1. writes[w].alone => writes[w].done = 0
        BY <2>1, <2>2 DEF LoneWriteCarriesMemory
      <3>2. writes[w].text \in SUBSET Request
        BY ChunkGoes
      <3> QED
        BY <2>1, <2>2, <3>1, <3>2, LengthOfText DEF HasWritten, Empty
    <2>5. LoneWriteCarriesMemory'
      <3> SUFFICES ASSUME NEW v \in UnderWay', writes'[v].alone
                   PROVE  /\ UnderWay' = {v}
                          /\ writes'[v].text = memory'
                          /\ writes'[v].stage = "opened"
                          /\ HasWritten(v)'
        BY DEF LoneWriteCarriesMemory
      <3>1. v = w
        BY <2>2 DEF LoneWriteCarriesMemory
      <3> QED
        BY <2>1, <2>2, <2>4, <3>1 DEF LoneWriteCarriesMemory
    <2>6. HarmlessSoFar'
      BY <2>1, <2>2 DEF HarmlessSoFar
    <2>7. Opened' # {}
      BY <1>4, <2>2 DEF Opened
    <2>8. AnsweredIsOnFile'
      BY <2>7 DEF AnsweredIsOnFile
    <2> QED
      BY <2>3, <2>5, <2>6, <2>8
  <1>5. ASSUME NEW w \in Writer, WriteChunk(w)
        PROVE  Quiet'
    <2>1. /\ harm' = harm /\ server' = server /\ memory' = memory
          /\ answered' = answered /\ basis' = basis
          /\ PutPart(w, ChunkEnd(w)) /\ writes[w].stage = "opened"
      BY <1>5 DEF WriteChunk
    <2>2. /\ w \in UnderWay /\ UnderWay' = UnderWay
          /\ writes'[w].done = ChunkEnd(w)
          /\ writes'[w].stage = IF ChunkEnd(w) = Length[writes[w].text]
                                THEN "written" ELSE "opened"
          /\ \A v \in UnderWay : v \in Writer /\ writes'[v].text = writes[v].text
                               /\ writes'[v].alone = writes[v].alone
          /\ Opened' = {} => writes'[w].stage = "written"
      BY <1>5, ChunkWrites DEF UnderWay
    <2>3. WritersMatchServer'
      BY <2>1, <2>2 DEF WritersMatchServer
    <2>4. ASSUME writes[w].alone
          PROVE  /\ HasWritten(w)'
                 /\ writes'[w].stage = "written" => file' = Text(memory)
      <3>1. HasWritten(w) /\ writes[w].text = memory
        BY <2>1, <2>2, <2>4 DEF LoneWriteCarriesMemory
      <3>2. /\ writes[w].done \in Nat /\ ChunkEnd(w) \in Nat
            /\ ChunkEnd(w) <= Length[writes[w].text] /\ writes[w].done <= ChunkEnd(w)
        BY <3>1, ChunkGoes DEF HasWritten
      <3>3. /\ file'.exists
            /\ file'.size = ChunkEnd(w)
            /\ \A i \in 1..file'.size : file'.units[i] = writes[w].text
        BY <2>1, <3>1, <3>2, PartContinues DEF Max2
      <3>4. HasWritten(w)'
        BY <2>2, <3>2, <3>3 DEF HasWritten
      <3>5. IsFile(file') /\ IsFile(Text(memory)) /\ Length[memory] \in Nat
        BY <2>1, <3>2, PartIsFile, WholeFiles, LengthOfText DEF TypeOK
      <3>6. ASSUME writes'[w].stage = "written"
            PROVE  file' = Text(memory)
        <4>1. ChunkEnd(w) = Length[memory]
          BY <2>2, <3>1, <3>6
        <4>2. /\ Text(memory).exists = TRUE
              /\ Text(memory).size = Length[memory]
              /\ \A i \in 1..Length[memory] : Text(memory).units[i] = memory
          BY DEF Text
        <4>3. file'.exists = Text(memory).exists
          BY <3>3, <3>5, <4>2 DEF IsFile
        <4> QED
          BY <3>1, <3>3, <3>5, <4>1, <4>2, <4>3, SameFile
      <3> QED
        BY <3>4, <3>6
    <2>5. LoneWriteCarriesMemory'
      <3> SUFFICES ASSUME NEW v \in UnderWay', writes'[v].alone
                   PROVE  /\ UnderWay' = {v}
                          /\ writes'[v].text = memory'
                          /\ writes'[v].stage \in {"opened", "written"}
                          /\ HasWritten(v)'
                          /\ writes'[v].stage = "written" => file' = Text(memory)'
        BY DEF LoneWriteCarriesMemory
      <3>1. v = w /\ writes[w].alone
        BY <2>2 DEF LoneWriteCarriesMemory
      <3>2. HasWritten(v)'
        BY <2>4, <3>1
      <3>3. writes'[v].stage = "written" => file' = Text(memory)'
        BY <2>1, <2>4, <3>1 DEF Text
      <3> QED
        BY <2>1, <2>2, <3>1, <3>2, <3>3 DEF LoneWriteCarriesMemory
    <2>6. HarmlessSoFar'
      BY <2>1, <2>2 DEF HarmlessSoFar
    <2>7. AnsweredIsOnFile'
      <3>1. harm = {} => writes[w].alone /\ answered \subseteq memory
        BY <2>1, <2>2 DEF HarmlessSoFar, WritersMatchServer
      <3>2. memory \in SUBSET Request
        BY DEF TypeOK
      <3> QED
        BY <2>1, <2>2, <2>4, <3>1, <3>2 DEF AnsweredIsOnFile, Text
    <2> QED
      BY <2>3, <2>5, <2>6, <2>7
  <1>6. ASSUME NEW w \in Writer, Return(w)
        PROVE  Quiet'
    <2>1. /\ w \in UnderWay /\ w \notin Opened /\ file' = file /\ harm' = harm
          /\ memory' = memory /\ basis' = basis /\ server' = "up"
          /\ answered' = IF w = Boot THEN answered ELSE answered \union {w}
      BY <1>6 DEF Return, UnderWay, Opened
    <2>2. /\ \A v \in Writer \ {w} : writes'[v] = writes[v]
          /\ UnderWay' = UnderWay \ {w}
          /\ Opened' = Opened \ {w}
      BY <1>6, <2>1, EndedWrites DEF Return
    <2>3. \A v \in UnderWay : v \in Writer
      BY DEF UnderWay
    <2>4. server # "down"
      BY <2>1 DEF WritersMatchServer
    <2>5. WritersMatchServer'
      <3>1. w # Boot => Boot \notin UnderWay
        BY <2>1 DEF WritersMatchServer
      <3> QED
        BY <2>1, <2>2, <3>1 DEF WritersMatchServer
    <2>6. LoneWriteCarriesMemory'
      BY <2>1, <2>2, <2>3 DEF LoneWriteCarriesMemory
    <2>7. harm = {} => /\ UnderWay = {w}
                       /\ file = Text(memory)
                       /\ w # Boot => w \in memory
      <3>1. writes[w].stage = "written"
        BY <1>6 DEF Return
      <3>2. harm = {} => UnderWay = {w} /\ file = Text(memory)
        BY <2>1, <3>1 DEF HarmlessSoFar, LoneWriteCarriesMemory
      <3>3. harm = {} /\ w # Boot => w \in memory
        BY <2>1 DEF HarmlessSoFar, LoneWriteCarriesMemory, WritersMatchServer
      <3> QED
        BY <3>2, <3>3
    <2>8. harm = {} => answered' \subseteq memory
      BY <2>1, <2>4, <2>7 DEF HarmlessSoFar
    <2>9. HarmlessSoFar'
      BY <2>1, <2>2, <2>3, <2>8 DEF HarmlessSoFar
    <2>10. AnsweredIsOnFile'
      BY <2>1, <2>7, <2>8 DEF AnsweredIsOnFile, Text, TypeOK
    <2> QED
      BY <2>5, <2>6, <2>9, <2>10
  <1>7. ASSUME NEW w \in Writer, WriteFails(w)
        PROVE  Quiet'
    <2>1. /\ w \in UnderWay /\ harm' # {} /\ basis' = basis
          /\ w = Boot => server' = "down" /\ memory' = {}
          /\ w # Boot => server' = server /\ memory' = memory
      BY <1>7 DEF WriteFails, UnderWay
    <2>2. /\ \A v \in Writer \ {w} : writes'[v] = writes[v]
          /\ UnderWay' = UnderWay \ {w}
      BY <1>7, <2>1, EndedWrites DEF WriteFails
    <2>3. \A v \in UnderWay : v \in Writer
      BY DEF UnderWay
    <2>4. w = Boot => UnderWay' = {}
      BY <2>1, <2>2 DEF WritersMatchServer
    <2>5. WritersMatchServer'
      BY <2>1, <2>2, <2>4 DEF WritersMatchServer
    <2>6. LoneWriteCarriesMemory'
      BY <2>1, <2>2, <2>3 DEF LoneWriteCarriesMemory
    <2> QED
      BY <2>1, <2>5, <2>6 DEF HarmlessSoFar, AnsweredIsOnFile
  <1>8. CASE Crash
    <2>1. /\ UnderWay' = {} /\ server' = "down" /\ memory' = {}
          /\ answered' = answered /\ basis' = basis
          /\ Opened = {} => file' = file /\ harm' = harm
          /\ Opened # {} => harm' # {}
      BY <1>8, DroppedWrites DEF Crash
    <2>2. WritersMatchServer' /\ LoneWriteCarriesMemory' /\ HarmlessSoFar'
      BY <2>1 DEF WritersMatchServer, LoneWriteCarriesMemory, HarmlessSoFar
    <2>3. AnsweredIsOnFile'
      BY <2>1 DEF AnsweredIsOnFile
    <2> QED
      BY <2>2, <2>3
  <1>9. CASE UNCHANGED vars
    BY <1>9 DEF vars, WritersMatchServer, LoneWriteCarriesMemory, HarmlessSoFar,
                AnsweredIsOnFile, UnderWay, Opened, Text, HasWritten
  <1> QED
    BY <1>1, <1>2, <1>3, <1>4, <1>5, <1>6, <1>7, <1>8, <1>9 DEF Next

LEMMA AlwaysQuiet == Spec => []Quiet
  BY InitType, StepType, InitQuiet, StepQuiet, PTL DEF Spec

\* A write that had the file to itself leaves the whole state in it, whatever
\* earlier writes, failures and deaths did to the file.
THEOREM LoneWritesRepair == Spec => []LoneWriteIsOnFile
  <1>1. Quiet => LoneWriteIsOnFile
    BY DEF Quiet, LoneWriteCarriesMemory, LoneWriteIsOnFile
  <1> QED
    BY <1>1, AlwaysQuiet, PTL

\* What the server answered (create-server.js sends the answer after persist
\* returned) is in the file and can be loaded, as long as no two writes
\* overlapped, none failed and the server did not die inside one.
THEOREM AnswersAreDurable == Spec => []AnsweredIsOnFile
  <1>1. Quiet => AnsweredIsOnFile
    BY DEF Quiet
  <1> QED
    BY <1>1, AlwaysQuiet, PTL
----------------------------------------------------------------------------
(* Restarts see past states *)

\* Memory, every text on its way and every unit of the file are of a state that
\* was, as long as no mixture was loaded.
PastStates ==
    "mixture" \notin harm =>
        /\ Closed(memory)
        /\ \A i \in 1..file.size : file.units[i] # Hole => Closed(file.units[i])
        /\ \A w \in UnderWay : Closed(writes[w].text)

\* The file begins with one text, or with what there is of it.
BeginsWith(text) ==
    \A i \in 1..file.size : i < Length[text] => file.units[i] = text

OneText == ~torn => \E text \in SUBSET Request : BeginsWith(text)

\* What was last put into the file was at its end, or a whole text, or torn.
LEMMA PartPut ==
    ASSUME TypeOK, Quiet, NEW w \in Opened, NEW n \in Nat, n <= ChunkEnd(w), PutPart(w, n)
    PROVE  /\ \A i \in 1..file'.size : \/ file'.units[i] \in {writes[w].text, Hole}
                                      \/ /\ i \in 1..file.size
                                         /\ file'.units[i] = file.units[i]
           /\ OneText'
  <1> DEFINE text == writes[w].text
             done == writes[w].done
  <1>1. /\ IsFile(file) /\ w \in Writer /\ text \in SUBSET Request /\ done \in Nat
        /\ ChunkEnd(w) \in Nat /\ ChunkEnd(w) <= Length[text]
        /\ Length[text] \in Nat
    BY ChunkGoes, LengthOfText DEF TypeOK, IsFile, Opened
  <1>2. file' = WithPart(text, done, n)
    BY DEF PutPart
  <1>3. /\ file'.size = Max2(n, file.size)
        /\ \A i \in 1..Max2(n, file.size) :
              file'.units[i] = IF done < i /\ i <= n THEN text
                               ELSE IF i <= file.size THEN file.units[i]
                               ELSE Hole
    <2> HIDE DEF text, done
    <2> QED
      BY <1>1, <1>2, PartWritten
  <1>4. \A i \in 1..file'.size : \/ file'.units[i] \in {text, Hole}
                                \/ /\ i \in 1..file.size
                                   /\ file'.units[i] = file.units[i]
    BY <1>1, <1>3 DEF IsFile, Max2
  <1>5. ASSUME ~torn'
        PROVE  \A i \in 1..file'.size : i < Length[text] => file'.units[i] = text
    <2>1. CASE writes[w].alone
      <3>1. HasWritten(w)
        BY <2>1 DEF Quiet, LoneWriteCarriesMemory, Opened, UnderWay
      <3> QED
        BY <1>1, <3>1, PartContinues
    <2>2. CASE ~writes[w].alone
      <3>1. ~(n - writes[w].done < Length[writes[w].text])
        BY <1>5, <2>2, Zenon DEF PutPart
      <3>2. done = 0 /\ n = Length[text]
        BY <1>1, <3>1
      <3> QED
        BY <1>1, <1>3, <3>2 DEF Max2, IsFile
    <2> QED
      BY <2>1, <2>2
  <1>6. OneText'
    BY <1>1, <1>5 DEF OneText, BeginsWith
  <1> QED
    BY <1>4, <1>6

\* The same of the part of a chunk that a failure or a death leaves.
LEMMA SomePut ==
    ASSUME TypeOK, Quiet, NEW w \in Opened, PutSome(w)
    PROVE  /\ \A i \in 1..file'.size : \/ file'.units[i] \in {writes[w].text, Hole}
                                      \/ /\ i \in 1..file.size
                                         /\ file'.units[i] = file.units[i]
           /\ OneText'
  <1>1. PICK n \in writes[w].done + 1 .. ChunkEnd(w) - 1 : PutPart(w, n)
    BY DEF PutSome
  <1>2. n \in Nat /\ n <= ChunkEnd(w)
    BY <1>1, ChunkGoes DEF Opened
  <1> QED
    BY <1>1, <1>2, PartPut

\* A state that can be loaded from a file which is not torn and mixed is of one
\* of its units.
LEMMA LoadedState ==
    ASSUME TypeOK, OneText, NEW state \in SUBSET Request, LoadsAs(state)
    PROVE  \/ torn /\ Mixed
           \/ 1 \in 1..file.size /\ file.units[1] = state /\ state # Hole
  <1>1. CASE Mixed
    <2>1. PICK i \in 1..file.size :
             i < Length[file.units[1]] /\ file.units[i] # file.units[1]
      BY <1>1 DEF Mixed
    <2>2. 1 \in 1..file.size /\ file.size \in Nat
      BY <2>1 DEF TypeOK
    <2>3. ASSUME NEW text \in SUBSET Request, BeginsWith(text)
          PROVE  FALSE
      <3>1. file.units[1] = text
        BY <2>2, <2>3, LengthOfText DEF BeginsWith
      <3> QED
        BY <2>1, <2>3, <3>1 DEF BeginsWith
    <2> QED
      BY <1>1, <2>3 DEF OneText
  <1>2. CASE ~Mixed
    <2>1. /\ Length[state] - 1 <= file.size
          /\ \A i \in 1 .. Length[state] - 1 : file.units[i] = state
      BY <1>2 DEF LoadsAs
    <2>2. Length[state] \in Nat /\ Length[state] >= 2 /\ file.size \in Nat
      BY LengthOfText DEF TypeOK
    <2>3. 1 \in 1 .. Length[state] - 1 /\ 1 \in 1..file.size
      BY <2>1, <2>2
    <2> QED
      BY <2>1, <2>3, HoleIsNoState
  <1> QED
    BY <1>1, <1>2

LEMMA LoadsPast == TypeOK /\ PastStates /\ OneText => CausallyClosed
  BY LoadedState DEF PastStates, CausallyClosed

LEMMA InitPast == Init => PastStates /\ OneText
  <1> SUFFICES ASSUME Init
               PROVE  PastStates /\ OneText
    OBVIOUS
  <1>1. memory = {} /\ UnderWay = {} /\ file.size = 0
    BY DEF Init, UnderWay, NoWrite, Absent
  <1>2. BeginsWith({})
    BY <1>1 DEF BeginsWith
  <1> QED
    BY <1>1, <1>2 DEF PastStates, OneText, Closed

\* A step that leaves the file alone leaves it beginning with one text.
LEMMA FileStays ==
    ASSUME OneText, file' = file, torn' = torn
    PROVE  OneText'
  BY DEF OneText, BeginsWith

LEMMA StepPast == TypeOK /\ Quiet /\ PastStates /\ OneText /\ [Next]_vars
                     => PastStates' /\ OneText'
  <1> SUFFICES ASSUME TypeOK, Quiet, PastStates, OneText, [Next]_vars
               PROVE  PastStates' /\ OneText'
    OBVIOUS
  <1>a. Closed({}) /\ Closed({})'
    BY DEF Closed
  <1>1. CASE StartEmpty
    <2>1. Boot \in Writer /\ {} \in SUBSET Request /\ Persist(Boot, {})
      BY <1>1 DEF StartEmpty, Writer
    <2>2. \A w \in UnderWay' : \/ writes'[w].text = {}
                              \/ /\ w \in UnderWay
                                 /\ writes'[w].text = writes[w].text
      BY <2>1, PersistedWrites DEF UnderWay
    <2>3. /\ basis' = basis /\ file' = file /\ torn' = torn /\ memory' = {}
          /\ "mixture" \in harm => "mixture" \in harm'
      BY <1>1 DEF StartEmpty, Persist
    <2>4. PastStates'
      BY <1>a, <2>2, <2>3 DEF PastStates, Closed
    <2> QED
      BY <2>3, <2>4, FileStays
  <1>2. CASE StartFromFile
    <2>1. PICK state \in SUBSET Request : LoadsAs(state) /\ memory' = state
      BY <1>2 DEF StartFromFile
    <2>2. /\ basis' = basis /\ file' = file /\ torn' = torn /\ writes' = writes
          /\ "mixture" \notin harm' => "mixture" \notin harm /\ ~(torn /\ Mixed)
      BY <1>2 DEF StartFromFile
    <2>3. "mixture" \notin harm' => Closed(state)
      BY <2>1, <2>2, LoadedState DEF PastStates
    <2>4. PastStates'
      BY <2>1, <2>2, <2>3 DEF PastStates, Closed, UnderWay
    <2> QED
      BY <2>2, <2>4, FileStays
  <1>3. ASSUME NEW r \in Request, Handle(r)
        PROVE  PastStates' /\ OneText'
    <2>1. r \in Writer /\ memory \union {r} \in SUBSET Request
          /\ Persist(r, memory \union {r})
      BY <1>3 DEF Handle, Writer, TypeOK
    <2>2. \A w \in UnderWay' : \/ writes'[w].text = memory \union {r}
                              \/ /\ w \in UnderWay
                                 /\ writes'[w].text = writes[w].text
      BY <2>1, PersistedWrites DEF UnderWay
    <2>3. /\ DOMAIN basis' = DOMAIN basis \union {r}
          /\ basis'[r] = memory
          /\ \A x \in DOMAIN basis : x # r /\ basis'[x] = basis[x]
      BY <1>3 DEF Handle
    <2>4. /\ memory' = memory \union {r} /\ file' = file /\ torn' = torn
          /\ "mixture" \in harm => "mixture" \in harm'
      BY <1>3 DEF Handle, Persist
    <2>5. ASSUME NEW state, Closed(state)
          PROVE  \A x \in state : x \in DOMAIN basis' /\ basis'[x] \subseteq state
      BY <2>3, <2>5 DEF Closed
    <2>6. ASSUME Closed(memory)
          PROVE  \A x \in memory \union {r} :
                    x \in DOMAIN basis' /\ basis'[x] \subseteq memory \union {r}
      BY <2>3, <2>5, <2>6
    <2>7. PastStates'
      BY <2>2, <2>4, <2>5, <2>6 DEF PastStates, Closed
    <2> QED
      BY <2>4, <2>7, FileStays
  <1>4. ASSUME NEW w \in Writer, OpenFile(w)
        PROVE  PastStates' /\ OneText'
    <2>1. UnderWay' = UnderWay /\ \A v \in UnderWay : writes'[v].text = writes[v].text
      BY <1>4, OpenedWrites DEF UnderWay
    <2>2. file'.size = 0 /\ basis' = basis /\ memory' = memory /\ harm' = harm
      BY <1>4 DEF OpenFile, Empty
    <2>3. PastStates'
      BY <2>1, <2>2 DEF PastStates, Closed
    <2>4. BeginsWith({})'
      BY <2>2 DEF BeginsWith
    <2> QED
      BY <2>3, <2>4 DEF OneText
  <1>5. ASSUME NEW w \in Writer, WriteChunk(w)
        PROVE  PastStates' /\ OneText'
    <2>1. /\ w \in UnderWay /\ w \in Opened /\ UnderWay' = UnderWay
          /\ \A v \in UnderWay : writes'[v].text = writes[v].text
      BY <1>5, ChunkWrites DEF UnderWay
    <2>2. /\ basis' = basis /\ memory' = memory /\ harm' = harm
          /\ PutPart(w, ChunkEnd(w)) /\ ChunkEnd(w) \in Nat /\ ChunkEnd(w) <= ChunkEnd(w)
      BY <1>5, ChunkGoes DEF WriteChunk
    <2>3. /\ \A i \in 1..file'.size : \/ file'.units[i] \in {writes[w].text, Hole}
                                     \/ /\ i \in 1..file.size
                                        /\ file'.units[i] = file.units[i]
          /\ OneText'
      BY <2>1, <2>2, PartPut
    <2>4. PastStates'
      BY <2>1, <2>2, <2>3 DEF PastStates, Closed
    <2> QED
      BY <2>3, <2>4
  <1>6. ASSUME NEW w \in Writer, Return(w)
        PROVE  PastStates' /\ OneText'
    <2>1. w \in UnderWay
      BY <1>6 DEF Return, UnderWay
    <2>2. UnderWay' = UnderWay \ {w} /\ \A v \in UnderWay' : writes'[v] = writes[v]
      BY <1>6, <2>1, EndedWrites DEF Return, UnderWay
    <2>3. /\ basis' = basis /\ memory' = memory /\ harm' = harm
          /\ file' = file /\ torn' = torn
      BY <1>6 DEF Return
    <2>4. PastStates'
      BY <2>2, <2>3 DEF PastStates, Closed
    <2> QED
      BY <2>3, <2>4, FileStays
  <1>7. ASSUME NEW w \in Writer, WriteFails(w)
        PROVE  PastStates' /\ OneText'
    <2>1. w \in UnderWay
      BY <1>7 DEF WriteFails
    <2>2. UnderWay' = UnderWay \ {w} /\ \A v \in UnderWay' : writes'[v] = writes[v]
      BY <1>7, <2>1, EndedWrites DEF WriteFails, UnderWay
    <2>3. /\ basis' = basis /\ (memory' = memory \/ memory' = {})
          /\ "mixture" \in harm => "mixture" \in harm'
          /\ UNCHANGED <<file, torn>> \/ PutSome(w)
      BY <1>7 DEF WriteFails
    <2>4. /\ \A i \in 1..file'.size : \/ file'.units[i] \in {writes[w].text, Hole}
                                     \/ /\ i \in 1..file.size
                                        /\ file'.units[i] = file.units[i]
          /\ OneText'
      <3>1. CASE UNCHANGED <<file, torn>>
        BY <3>1, FileStays
      <3>2. CASE PutSome(w)
        <4>1. w \in Opened
          BY <1>7, <3>2 DEF PutSome, Opened
        <4> QED
          BY <3>2, <4>1, SomePut
      <3> QED
        BY <2>3, <3>1, <3>2
    <2>5. PastStates'
      BY <1>a, <2>1, <2>2, <2>3, <2>4 DEF PastStates, Closed
    <2> QED
      BY <2>4, <2>5
  <1>8. CASE Crash
    <2>1. UnderWay' = {}
      BY <1>8, DroppedWrites DEF Crash
    <2>2. /\ basis' = basis /\ memory' = {}
          /\ "mixture" \in harm => "mixture" \in harm'
          /\ UNCHANGED <<file, torn>> \/ \E w \in Opened : PutSome(w)
      BY <1>8 DEF Crash
    <2>3. CASE UNCHANGED <<file, torn>>
      <3>1. PastStates'
        BY <1>a, <2>1, <2>2, <2>3 DEF PastStates, Closed
      <3> QED
        BY <2>3, <3>1, FileStays
    <2>4. ASSUME NEW w \in Opened, PutSome(w)
          PROVE  PastStates' /\ OneText'
      <3>1. /\ \A i \in 1..file'.size : \/ file'.units[i] \in {writes[w].text, Hole}
                                       \/ /\ i \in 1..file.size
                                          /\ file'.units[i] = file.units[i]
            /\ OneText'
        BY <2>4, SomePut
      <3>2. w \in UnderWay
        BY DEF Opened, UnderWay
      <3>3. PastStates'
        BY <1>a, <2>1, <2>2, <3>1, <3>2 DEF PastStates, Closed
      <3> QED
        BY <3>1, <3>3
    <2> QED
      BY <2>2, <2>3, <2>4
  <1>9. CASE UNCHANGED vars
    BY <1>9, FileStays DEF vars, PastStates, Closed, UnderWay
  <1> QED
    BY <1>1, <1>2, <1>3, <1>4, <1>5, <1>6, <1>7, <1>8, <1>9 DEF Next

\* Whatever overlaps, fails or dies, memory, every text on its way and what can
\* be loaded from the file is a state the server was once in, until parts of
\* overlapping writes that parse are loaded (state-store.js:138-155).
THEOREM RestartsSeePastStates == Spec => []CausallyClosed
  <1>1. Spec => [](PastStates /\ OneText)
    BY InitType, StepType, InitQuiet, StepQuiet, InitPast, StepPast, PTL DEF Spec
  <1> QED
    BY <1>1, TypeCorrect, LoadsPast, PTL
=============================================================================
