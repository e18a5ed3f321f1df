-------------------------- MODULE StorePersistence --------------------------
(***************************************************************************)
(* The state file of the relay server: init and persist of                 *)
(* FileBackedStateStore (src/server/state-store.js), the handlers that     *)
(* wait for persist before they answer (src/server/create-server.js), and  *)
(* the start of the server (src/server/run-server.js).                     *)
(*                                                                         *)
(* A handler changes the state in memory and calls persist in one step;    *)
(* the text it writes is taken at that moment.  fs.writeFile then opens    *)
(* the file, which truncates it, writes the text from its beginning, one   *)
(* chunk of 512 KiB after the other, and returns.  Nothing keeps two       *)
(* handlers' calls apart, and each has a file position of its own.         *)
(*                                                                         *)
(* The state is the set of the requests whose changes it has.  A text is   *)
(* so many units long (characters, in the code), the last two of which are *)
(* the closing brace and the newline; the file says of each of its units   *)
(* which text it is of.                                                    *)
(***************************************************************************)
EXTENDS Naturals

CONSTANTS
    Request,    \* requests that change the state
    Boot,       \* the write that init makes when there is no file
    Length,     \* the length of the text of a state
    ChunkSize,  \* what writeFile writes at once
    MaxCrashes, \* bound: times the server dies
    MaxFailures \* bound: writes that fail

ASSUME StoreAssumption ==
    /\ Boot \notin Request
    /\ Length \in [SUBSET Request -> Nat \ {0, 1}]
    /\ ChunkSize \in Nat \ {0}
    /\ MaxCrashes \in Nat /\ MaxFailures \in Nat

VARIABLES
    server,     \* "down", "starting" (init has not returned) or "up"
    memory,     \* this.state
    file,       \* the state file
    writes,     \* the calls of persist under way
    crashes,    \* times the server died
    failures,   \* writes that failed
    answered,   \* history: requests answered with success
    basis,      \* history: the state each request handled was handled in
    harm,       \* history: what kept a write from being whole and alone
    torn        \* history: last written was a part of a text, by a write that
                \* was not alone

vars == <<server, memory, file, writes, crashes, failures, answered, basis, harm, torn>>

Min2(m, n) == IF m < n THEN m ELSE n
Max2(m, n) == IF m < n THEN n ELSE m

----------------------------------------------------------------------------
(* The file *)

\* What is read where nothing was written: not a state.
Hole == {Boot}

Unit == (SUBSET Request) \union {Hole}

Absent == [exists |-> FALSE, size |-> 0, units |-> [i \in 1..0 |-> Hole]]
Empty == [exists |-> TRUE, size |-> 0, units |-> [i \in 1..0 |-> Hole]]
Text(text) == [exists |-> TRUE, size |-> Length[text],
               units |-> [i \in 1..Length[text] |-> text]]

\* The file after the units of a text behind m, up to n, are written.
WithPart(text, m, n) ==
    LET size == Max2(n, file.size)
    IN [exists |-> TRUE, size |-> size,
        units |-> [i \in 1..size |-> IF m < i /\ i <= n THEN text
                                     ELSE IF i <= file.size THEN file.units[i]
                                     ELSE Hole]]

\* Before its first text is over there is a unit of another, and nowhere a hole.
Mixed ==
    /\ \A i \in 1..file.size : file.units[i] # Hole
    /\ \E i \in 1..file.size :
          i < Length[file.units[1]] /\ file.units[i] # file.units[1]

\* What JSON.parse may make of the file: the state whose text it begins with, if
\* what follows may be white space (as a newline is, and a closing brace is
\* not).  A text that is cut short never parses, nor does a hole.  A mixture
\* parses where the parts fit, and has then some of the changes of its texts.
LoadsAs(state) ==
    \/ /\ Length[state] - 1 <= file.size
       /\ \A i \in 1 .. Length[state] - 1 : file.units[i] = state
       /\ \A i \in Length[state]..file.size :
             file.units[i] # Hole /\ Length[file.units[i]] # i + 1
    \/ /\ Mixed
       /\ state \subseteq UNION {file.units[i] : i \in 1..file.size}

\* A call of persist.  done is how much it has written; alone is history: no
\* other has been under way with it.
Write == [stage: {"none", "called", "opened", "written"}, text: SUBSET Request,
          done: Nat, alone: BOOLEAN]
NoWrite == [stage |-> "none", text |-> {}, done |-> 0, alone |-> FALSE]

Writer == Request \union {Boot}
UnderWay == {w \in Writer : writes[w].stage # "none"}
Opened == {w \in Writer : writes[w].stage = "opened"}

TypeOK ==
    /\ server \in {"down", "starting", "up"}
    /\ memory \subseteq Request
    /\ file = [exists |-> file.exists, size |-> file.size, units |-> file.units]
    /\ file.exists \in BOOLEAN /\ file.size \in Nat
    /\ file.units \in [1..file.size -> Unit]
    /\ writes \in [Writer -> Write]
    /\ crashes \in Nat /\ failures \in Nat
    /\ answered \subseteq Request
    /\ DOMAIN basis \subseteq Request
    /\ basis \in [DOMAIN basis -> SUBSET Request]
    /\ harm \subseteq {"overlap", "crash", "failure", "mixture"}
    /\ torn \in BOOLEAN

\* persist, up to its await.
Persist(w, state) ==
    /\ writes' = [v \in DOMAIN writes |->
          IF v = w THEN [stage |-> "called", text |-> state, done |-> 0,
                         alone |-> UnderWay = {}]
          ELSE [writes[v] EXCEPT !.alone = FALSE]]
    /\ harm' = IF UnderWay = {} THEN harm ELSE harm \union {"overlap"}

\* The end of the chunk that a write is about to write.
ChunkEnd(w) == Min2(writes[w].done + ChunkSize, Length[writes[w].text])

\* A write puts its text into the file, from where it is up to n.
PutPart(w, n) ==
    /\ file' = WithPart(writes[w].text, writes[w].done, n)
    /\ torn' = (~writes[w].alone /\ n - writes[w].done < Length[writes[w].text])

----------------------------------------------------------------------------

Init ==
    /\ server = "down"
    /\ memory = {}
    /\ file = Absent
    /\ writes = [w \in Writer |-> NoWrite]
    /\ crashes = 0 /\ failures = 0
    /\ answered = {}
    /\ basis = [r \in {} |-> {}]
    /\ harm = {}
    /\ torn = FALSE

\* init finds no file: it writes the initial state before the server listens.
StartEmpty ==
    /\ server = "down"
    /\ file = Absent
    /\ server' = "starting"
    /\ memory' = {}
    /\ Persist(Boot, {})
    /\ UNCHANGED <<file, crashes, failures, answered, basis, torn>>

\* init parses the file.  A text that does not parse is thrown to the caller
\* of startProtocolServer, and the server stays down.
StartFromFile ==
    /\ server = "down"
    /\ \E state \in SUBSET Request : LoadsAs(state) /\ memory' = state
    /\ server' = "up"
    /\ harm' = IF torn /\ Mixed THEN harm \union {"mixture"} ELSE harm
    /\ UNCHANGED <<file, writes, crashes, failures, answered, basis, torn>>

\* Any handler that changes the state.
Handle(r) ==
    /\ server = "up"
    /\ r \notin DOMAIN basis
    /\ memory' = memory \union {r}
    /\ basis' = [x \in DOMAIN basis \union {r} |-> IF x = r THEN memory ELSE basis[x]]
    /\ Persist(r, memory \union {r})
    /\ UNCHANGED <<server, file, crashes, failures, answered, torn>>

\* Mutant: the file is opened without truncating it.
OpenFileInPlace(w) ==
    /\ writes[w].stage = "called"
    /\ file' = [file EXCEPT !.exists = TRUE]
    /\ writes' = [writes EXCEPT ![w].stage = "opened"]
    /\ torn' = FALSE
    /\ UNCHANGED <<server, memory, crashes, failures, answered, basis, harm>>

OpenFile(w) ==
    /\ writes[w].stage = "called"
    /\ file' = Empty
    /\ writes' = [writes EXCEPT ![w].stage = "opened"]
    /\ torn' = FALSE
    /\ UNCHANGED <<server, memory, crashes, failures, answered, basis, harm>>

WriteChunk(w) ==
    /\ writes[w].stage = "opened"
    /\ PutPart(w, ChunkEnd(w))
    /\ writes' = [writes EXCEPT
          ![w].done = ChunkEnd(w),
          ![w].stage = IF ChunkEnd(w) = Length[writes[w].text] THEN "written" ELSE @]
    /\ UNCHANGED <<server, memory, crashes, failures, answered, basis, harm>>

\* Mutant: persist is not awaited.
ReturnAtOnce(w) ==
    /\ writes[w].stage \in {"called", "written"}
    /\ writes' = [writes EXCEPT ![w] =
          IF writes[w].stage = "written" THEN NoWrite ELSE @]
    /\ server' = "up"
    /\ answered' = IF w = Boot THEN answered ELSE answered \union {w}
    /\ UNCHANGED <<memory, file, crashes, failures, basis, harm, torn>>

\* Mutant: the write of init counts as a request.
ReturnCountingBoot(w) ==
    /\ writes[w].stage = "written"
    /\ writes' = [writes EXCEPT ![w] = NoWrite]
    /\ server' = "up"
    /\ answered' = answered \union {w}
    /\ UNCHANGED <<memory, file, crashes, failures, basis, harm, torn>>

\* persist returns: the server listens, or the request is answered.
Return(w) ==
    /\ writes[w].stage = "written"
    /\ writes' = [writes EXCEPT ![w] = NoWrite]
    /\ server' = "up"
    /\ answered' = IF w = Boot THEN answered ELSE answered \union {w}
    /\ UNCHANGED <<memory, file, crashes, failures, basis, harm, torn>>

\* A part of the chunk a write was about to write may be in the file.
PutSome(w) ==
    /\ writes[w].stage = "opened"
    /\ \E n \in writes[w].done + 1 .. ChunkEnd(w) - 1 : PutPart(w, n)

\* The file cannot be opened, written or closed: the request is answered with an
\* error, and its change stays in memory.  In init the error is thrown.
WriteFails(w) ==
    /\ w \in UnderWay
    /\ failures < MaxFailures
    /\ failures' = failures + 1
    /\ UNCHANGED <<file, torn>> \/ PutSome(w)
    /\ writes' = [writes EXCEPT ![w] = NoWrite]
    /\ server' = IF w = Boot THEN "down" ELSE server
    /\ memory' = IF w = Boot THEN {} ELSE memory
    /\ harm' = harm \union {"failure"}
    /\ UNCHANGED <<crashes, answered, basis>>

\* The process dies, perhaps in the middle of a chunk.
Crash ==
    /\ server # "down"
    /\ crashes < MaxCrashes
    /\ crashes' = crashes + 1
    /\ server' = "down"
    /\ memory' = {}
    /\ UNCHANGED <<file, torn>> \/ \E w \in Opened : PutSome(w)
    /\ writes' = [w \in DOMAIN writes |-> NoWrite]
    /\ harm' = IF Opened = {} THEN harm ELSE harm \union {"crash"}
    /\ UNCHANGED <<failures, answered, basis>>

Next ==
    \/ StartEmpty
    \/ StartFromFile
    \/ \E r \in Request : Handle(r)
    \/ \E w \in Writer :
          OpenFile(w) \/ WriteChunk(w) \/ Return(w) \/ WriteFails(w)
    \/ Crash

Spec == Init /\ [][Next]_vars

----------------------------------------------------------------------------
(* Properties *)

\* What is in memory, in a text on its way or loaded from the file was once the
\* state of the server, whatever overlaps, fails or dies: a restart may find an
\* old state, never one with a request's change and without one of those the
\* request was handled on top of.  The exception are mixtures: if what was last
\* written is a part of a text, by a write that was not alone (its text is longer
\* than a chunk, or it failed or died on the way), the file may have parts of
\* several texts that parse as a state that never was.
Closed(state) ==
    \A r \in state : r \in DOMAIN basis /\ basis[r] \subseteq state

CausallyClosed ==
    "mixture" \notin harm =>
        /\ Closed(memory)
        /\ \A state \in SUBSET Request : LoadsAs(state) => Closed(state) \/ (torn /\ Mixed)
        /\ \A w \in UnderWay : Closed(writes[w].text)

\* A write that has the file to itself from its call on leaves the whole state
\* in it, whatever earlier writes made of the file: so a server that comes to
\* rest after one such write loses nothing by dying.
LoneWriteIsOnFile ==
    \A w \in UnderWay :
        writes[w].stage = "written" /\ writes[w].alone =>
            file = Text(memory)

\* While no two writes overlap, none fails and the server does not die in the
\* middle of one, every request that was answered is in the file, and the
\* server can start from it.
AnsweredIsOnFile ==
    harm = {} =>
        \/ Opened # {}
        \/ file = Absent /\ answered = {}
        \/ \E state \in SUBSET Request : file = Text(state) /\ answered \subseteq state
=============================================================================
