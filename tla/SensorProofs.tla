---------------------------- MODULE SensorProofs ----------------------------
(***************************************************************************)
(* What the sensor fetches.                                                *)
(*                                                                         *)
(* Its plugins: for any number of sessions, URLs, payloads, faults and     *)
(* restarts, and whatever the C2s serve: one fetch per URL and process, no *)
(* cut file under a hash that one URL serves, no event before its file,    *)
(* and no payload lost between the workers that share its <sha>.tmp.       *)
(*                                                                         *)
(* The transfer commands of the honeypot: for a remote file of any length, *)
(* any limits, block numbers that wrap anywhere and any network: what is   *)
(* stored and reported is the remote file, a transfer ends in one outcome, *)
(* and the rate limiter keeps its window.                                  *)
(***************************************************************************)
EXTENDS Sensor, Transfers, FiniteSetTheorems, SequenceTheorems, WellFoundedInduction, TLAPS

-----------------------------------------------------------------------------
(***************************************************************************)
(* The inductive invariant of the plugins.                                 *)
(***************************************************************************)

\* A worker fetches a URL that _fetched has and a session named, holds what the
\* URL serves, and has a descriptor open only while it writes.
WorkersAreSound ==
    \A u \in Urls :
        /\ worker[u].sha # None => worker[u].sha \in Serves[u]
        /\ worker[u].pc \in {"none", "get"} => worker[u].sha = None
        /\ worker[u].fd # "none" => worker[u].pc = "write"
        /\ worker[u].pc # "none" => u \in fetched /\ u \in typed[worker[u].for]
        /\ gets[u] <= 1
        /\ gets[u] = 1 => u \in fetched

\* A payload that was opened is on disk under one name or the other, and what an
\* event announces is on disk under its hash.
PayloadsAreThere ==
    /\ \A u \in Urls :
         /\ worker[u].pc \in {"write", "rename"} =>
              tmp[worker[u].sha] # "none" \/ target[worker[u].sha] # "none"
         /\ worker[u].pc = "emit" => target[worker[u].sha] # "none"
    /\ \A s \in Sessions : \A f \in files[s] : f.url \in typed[s] /\ target[f.sha] # "none"

\* The only worker a payload can have writes to <sha>.tmp and to nothing else,
\* and renames it when it is whole.
LoneWorkersFinish ==
    \A u \in Urls : (worker[u].sha # None /\ Exclusive(worker[u].sha)) =>
        /\ worker[u].pc = "write" => worker[u].fd = "tmp"
        /\ worker[u].pc = "rename" => tmp[worker[u].sha] = "whole"

\* As long as nothing failed, a file that is cut short has a writer.
CutFilesHaveAWriter ==
    faults = 0 =>
        /\ \A c \in Contents :
             /\ tmp[c] = "partial" => \E v \in Urls : worker[v].sha = c /\ worker[v].fd = "tmp"
             /\ target[c] = "partial" => \E v \in Urls : worker[v].sha = c /\ worker[v].fd = "target"
        /\ \A u \in Urls : (worker[u].pc = "done" /\ worker[u].sha # None) => target[worker[u].sha] # "none"

IInv ==
    /\ TypeOK
    /\ WorkersAreSound
    /\ PayloadsAreThere
    /\ LoneWorkersFinish
    /\ ExclusiveDownloadsAreWhole
    /\ SentFilesAreWhole
    /\ CutFilesHaveAWriter

-----------------------------------------------------------------------------
(***************************************************************************)
(* The steps of the plugins.                                               *)
(***************************************************************************)
WorkerState == [pc : {"none", "get", "open", "write", "rename", "emit", "done"},
                for : Sessions \cup {None}, sha : Contents \cup {None}, fd : {"none", "tmp", "target"}]

\* The initial state satisfies the invariant.
LEMMA InitSensor == Init => IInv
  <1> SUFFICES ASSUME Init PROVE IInv
    OBVIOUS
  <1>1. TypeOK
    BY SensorAssumption DEF Init, TypeOK, NoWorker
  <1>2. WorkersAreSound /\ LoneWorkersFinish
    BY DEF Init, WorkersAreSound, LoneWorkersFinish, NoWorker
  <1>3. PayloadsAreThere /\ ExclusiveDownloadsAreWhole /\ SentFilesAreWhole /\ CutFilesHaveAWriter
    BY DEF Init, PayloadsAreThere, ExclusiveDownloadsAreWhole, SentFilesAreWhole, CutFilesHaveAWriter, NoWorker
  <1> QED
    BY <1>1, <1>2, <1>3 DEF IInv

\* A command with a URL that is new to the process starts its worker, which was
\* never there; any other command starts none.
LEMMA CommandFacts ==
    ASSUME IInv, NEW s \in Sessions, NEW u \in Urls, Command(s, u)
    PROVE  /\ fetched' = fetched \cup {u} /\ typed' = [typed EXCEPT ![s] = @ \cup {u}]
           /\ \/ UNCHANGED <<worker, gets>>
              \/ /\ worker[u].pc = "none" /\ worker[u].fd = "none" /\ gets[u] = 0
                 /\ worker' = [worker EXCEPT ![u] = [pc |-> "get", for |-> s, sha |-> None, fd |-> "none"]]
                 /\ gets' = [gets EXCEPT ![u] = 1]
           /\ UNCHANGED <<session, files, sent, tmp, target, faults>>
  <1>1. CASE u \in fetched \cup Guarded
    BY <1>1 DEF Command, diskVars
  <1>2. CASE u \notin fetched \cup Guarded
    <2>1. worker[u].pc = "none" /\ worker[u].fd = "none"
      BY <1>2 DEF IInv, TypeOK, WorkersAreSound
    <2>2. gets[u] \in Nat /\ gets[u] <= 1 /\ gets[u] # 1
      BY <1>2 DEF IInv, TypeOK, WorkersAreSound
    <2>3. gets[u] = 0 /\ gets[u] + 1 = 1
      BY <2>2
    <2> QED
      BY <1>2, <2>1, <2>3 DEF Command, diskVars
  <1> QED
    BY <1>1, <1>2

\* Every step keeps the types.
LEMMA TypeStep == IInv /\ [Next]_vars => TypeOK'
  <1> SUFFICES ASSUME IInv, [Next]_vars PROVE TypeOK'
    OBVIOUS
  <1> USE SensorAssumption DEF IInv, TypeOK, WorkersAreSound,
          reactorVars, diskVars, Fault
  <1>1. ASSUME NEW s \in Sessions, Connect(s) PROVE TypeOK'
    BY <1>1 DEF Connect
  <1>2. ASSUME NEW s \in Sessions, NEW u \in Urls, Command(s, u) PROVE TypeOK'
    <2>1. /\ fetched' = fetched \cup {u} /\ typed' = [typed EXCEPT ![s] = @ \cup {u}]
          /\ \/ UNCHANGED <<worker, gets>>
             \/ /\ worker[u].pc = "none" /\ worker[u].fd = "none" /\ gets[u] = 0
                /\ worker' = [worker EXCEPT ![u] = [pc |-> "get", for |-> s, sha |-> None, fd |-> "none"]]
                /\ gets' = [gets EXCEPT ![u] = 1]
          /\ UNCHANGED <<session, files, sent, tmp, target, faults>>
      <3> HIDE DEF IInv, TypeOK, WorkersAreSound
      <3> QED
        BY <1>2, CommandFacts
    <2>2. CASE UNCHANGED <<worker, gets>>
      BY <2>1, <2>2
    <2>3. CASE ~ UNCHANGED <<worker, gets>>
      <3>1. /\ worker[u].pc = "none" /\ worker[u].fd = "none" /\ gets[u] = 0
            /\ worker' = [worker EXCEPT ![u] = [pc |-> "get", for |-> s, sha |-> None, fd |-> "none"]]
            /\ gets' = [gets EXCEPT ![u] = 1]
        BY <2>1, <2>3
      <3>2. /\ fetched' = fetched \cup {u} /\ typed' = [typed EXCEPT ![s] = @ \cup {u}]
            /\ UNCHANGED <<session, files, sent, tmp, target, faults>>
        BY <2>1
      <3> QED
        BY <3>1, <3>2
    <2> QED
      BY <2>2, <2>3
  <1>3. ASSUME NEW s \in Sessions, Close(s) PROVE TypeOK'
    BY <1>3 DEF Close, Known
  <1>4. ASSUME NEW s \in Sessions, NEW u \in Urls, NEW c \in Contents, NativeDownload(s, u, c) PROVE TypeOK'
    BY <1>4 DEF NativeDownload, Known, FileEntry
  <1>5. ASSUME NEW u \in Urls, Emit(u) PROVE TypeOK'
    BY <1>5 DEF Emit, Known, FileEntry
  <1>6. ASSUME NEW u \in Urls, Get(u) PROVE TypeOK'
    BY <1>6 DEF Get
  <1>7. ASSUME NEW u \in Urls, GetFails(u) PROVE TypeOK'
    BY <1>7 DEF GetFails
  <1>8. ASSUME NEW u \in Urls, Open(u) PROVE TypeOK'
    BY <1>8 DEF Open
  <1>9. ASSUME NEW u \in Urls, Write(u) PROVE TypeOK'
    <2>1. worker' \in [Urls -> WorkerState]
      <3>1. worker \in [Urls -> WorkerState] /\ worker' = [worker EXCEPT ![u].pc = "rename", ![u].fd = "none"]
        BY <1>9 DEF Write, WorkerState
      <3> HIDE DEF IInv, TypeOK, WorkersAreSound
      <3>2. worker[u] \in WorkerState
        BY <3>1
      <3>3. [worker[u] EXCEPT !.pc = "rename", !.fd = "none"] \in WorkerState
        BY <3>2 DEF WorkerState
      <3> QED
        BY <3>1, <3>3
    <2> QED
      BY <1>9, <2>1 DEF Write, WorkerState
  <1>10. ASSUME NEW u \in Urls, Rename(u) PROVE TypeOK'
    BY <1>10 DEF Rename
  <1>11. ASSUME NEW u \in Urls, RenameFails(u) PROVE TypeOK'
    BY <1>11 DEF RenameFails
  <1>12. ASSUME NEW u \in Urls, WriteFails(u) PROVE TypeOK'
    <2>1. worker' \in [Urls -> WorkerState]
      <3>1. worker \in [Urls -> WorkerState] /\ worker' = [worker EXCEPT ![u].pc = "done", ![u].fd = "none"]
        BY <1>12 DEF WriteFails, WorkerState
      <3> HIDE DEF IInv, TypeOK, WorkersAreSound
      <3>2. worker[u] \in WorkerState
        BY <3>1
      <3>3. [worker[u] EXCEPT !.pc = "done", !.fd = "none"] \in WorkerState
        BY <3>2 DEF WorkerState
      <3> QED
        BY <3>1, <3>3
    <2> QED
      BY <1>12, <2>1 DEF WriteFails, WorkerState
  <1>13. ASSUME Restart PROVE TypeOK'
    BY <1>13 DEF Restart, NoWorker
  <1>14. CASE UNCHANGED vars
    BY <1>14 DEF vars
  <1> QED
    BY <1>1, <1>2, <1>3, <1>4, <1>5, <1>6, <1>7, <1>8, <1>9, <1>10, <1>11, <1>12, <1>13, <1>14
       DEF Next, Reactor, Worker, Failure

\* Every step keeps the workers sound: a URL is fetched again only after a restart.
LEMMA WorkersStep == IInv /\ [Next]_vars => WorkersAreSound'
  <1> SUFFICES ASSUME IInv, [Next]_vars PROVE WorkersAreSound'
    OBVIOUS
  <1> USE SensorAssumption DEF IInv, TypeOK, WorkersAreSound,
          reactorVars, diskVars, Fault
  <1>1. ASSUME NEW s \in Sessions, Connect(s) PROVE WorkersAreSound'
    BY <1>1 DEF Connect
  <1>2. ASSUME NEW s \in Sessions, NEW u \in Urls, Command(s, u) PROVE WorkersAreSound'
    <2>1. /\ fetched' = fetched \cup {u} /\ typed' = [typed EXCEPT ![s] = @ \cup {u}]
          /\ \/ UNCHANGED <<worker, gets>>
             \/ /\ worker[u].pc = "none" /\ worker[u].fd = "none" /\ gets[u] = 0
                /\ worker' = [worker EXCEPT ![u] = [pc |-> "get", for |-> s, sha |-> None, fd |-> "none"]]
                /\ gets' = [gets EXCEPT ![u] = 1]
          /\ UNCHANGED <<session, files, sent, tmp, target, faults>>
      <3> HIDE DEF IInv, TypeOK, WorkersAreSound
      <3> QED
        BY <1>2, CommandFacts
    <2>2. CASE UNCHANGED <<worker, gets>>
      BY <2>1, <2>2
    <2>3. CASE ~ UNCHANGED <<worker, gets>>
      <3>1. /\ worker[u].pc = "none" /\ worker[u].fd = "none" /\ gets[u] = 0
            /\ worker' = [worker EXCEPT ![u] = [pc |-> "get", for |-> s, sha |-> None, fd |-> "none"]]
            /\ gets' = [gets EXCEPT ![u] = 1]
        BY <2>1, <2>3
      <3>2. /\ fetched' = fetched \cup {u} /\ typed' = [typed EXCEPT ![s] = @ \cup {u}]
            /\ UNCHANGED <<session, files, sent, tmp, target, faults>>
        BY <2>1
      <3> QED
        BY <3>1, <3>2
    <2> QED
      BY <2>2, <2>3
  <1>3. ASSUME NEW s \in Sessions, Close(s) PROVE WorkersAreSound'
    BY <1>3 DEF Close, Known
  <1>4. ASSUME NEW s \in Sessions, NEW u \in Urls, NEW c \in Contents, NativeDownload(s, u, c) PROVE WorkersAreSound'
    BY <1>4 DEF NativeDownload, Known, FileEntry
  <1>5. ASSUME NEW u \in Urls, Emit(u) PROVE WorkersAreSound'
    BY <1>5 DEF Emit, Known, FileEntry
  <1>6. ASSUME NEW u \in Urls, Get(u) PROVE WorkersAreSound'
    BY <1>6 DEF Get
  <1>7. ASSUME NEW u \in Urls, GetFails(u) PROVE WorkersAreSound'
    BY <1>7 DEF GetFails
  <1>8. ASSUME NEW u \in Urls, Open(u) PROVE WorkersAreSound'
    BY <1>8 DEF Open
  <1>9. ASSUME NEW u \in Urls, Write(u) PROVE WorkersAreSound'
    BY <1>9 DEF Write
  <1>10. ASSUME NEW u \in Urls, Rename(u) PROVE WorkersAreSound'
    BY <1>10 DEF Rename
  <1>11. ASSUME NEW u \in Urls, RenameFails(u) PROVE WorkersAreSound'
    BY <1>11 DEF RenameFails
  <1>12. ASSUME NEW u \in Urls, WriteFails(u) PROVE WorkersAreSound'
    BY <1>12 DEF WriteFails
  <1>13. ASSUME Restart PROVE WorkersAreSound'
    BY <1>13 DEF Restart, NoWorker
  <1>14. CASE UNCHANGED vars
    BY <1>14 DEF vars
  <1> QED
    BY <1>1, <1>2, <1>3, <1>4, <1>5, <1>6, <1>7, <1>8, <1>9, <1>10, <1>11, <1>12, <1>13, <1>14
       DEF Next, Reactor, Worker, Failure

\* Every step keeps opened payloads, and those of events, on disk.
LEMMA PayloadsStep == IInv /\ [Next]_vars => PayloadsAreThere'
  <1> SUFFICES ASSUME IInv, [Next]_vars PROVE PayloadsAreThere'
    OBVIOUS
  <1> USE SensorAssumption DEF IInv, TypeOK, WorkersAreSound, PayloadsAreThere,
          reactorVars, diskVars, Fault
  <1>1. ASSUME NEW s \in Sessions, Connect(s) PROVE PayloadsAreThere'
    BY <1>1 DEF Connect
  <1>2. ASSUME NEW s \in Sessions, NEW u \in Urls, Command(s, u) PROVE PayloadsAreThere'
    <2>1. /\ fetched' = fetched \cup {u} /\ typed' = [typed EXCEPT ![s] = @ \cup {u}]
          /\ \/ UNCHANGED <<worker, gets>>
             \/ /\ worker[u].pc = "none" /\ worker[u].fd = "none" /\ gets[u] = 0
                /\ worker' = [worker EXCEPT ![u] = [pc |-> "get", for |-> s, sha |-> None, fd |-> "none"]]
                /\ gets' = [gets EXCEPT ![u] = 1]
          /\ UNCHANGED <<session, files, sent, tmp, target, faults>>
      <3> HIDE DEF IInv, TypeOK, WorkersAreSound, PayloadsAreThere
      <3> QED
        BY <1>2, CommandFacts
    <2>2. CASE UNCHANGED <<worker, gets>>
      BY <2>1, <2>2
    <2>3. CASE ~ UNCHANGED <<worker, gets>>
      <3>1. /\ worker[u].pc = "none" /\ worker[u].fd = "none" /\ gets[u] = 0
            /\ worker' = [worker EXCEPT ![u] = [pc |-> "get", for |-> s, sha |-> None, fd |-> "none"]]
            /\ gets' = [gets EXCEPT ![u] = 1]
        BY <2>1, <2>3
      <3>2. /\ fetched' = fetched \cup {u} /\ typed' = [typed EXCEPT ![s] = @ \cup {u}]
            /\ UNCHANGED <<session, files, sent, tmp, target, faults>>
        BY <2>1
      <3> QED
        BY <3>1, <3>2
    <2> QED
      BY <2>2, <2>3
  <1>3. ASSUME NEW s \in Sessions, Close(s) PROVE PayloadsAreThere'
    BY <1>3 DEF Close, Known
  <1>4. ASSUME NEW s \in Sessions, NEW u \in Urls, NEW c \in Contents, NativeDownload(s, u, c) PROVE PayloadsAreThere'
    BY <1>4 DEF NativeDownload, Known, FileEntry
  <1>5. ASSUME NEW u \in Urls, Emit(u) PROVE PayloadsAreThere'
    BY <1>5 DEF Emit, Known, FileEntry
  <1>6. ASSUME NEW u \in Urls, Get(u) PROVE PayloadsAreThere'
    BY <1>6 DEF Get
  <1>7. ASSUME NEW u \in Urls, GetFails(u) PROVE PayloadsAreThere'
    BY <1>7 DEF GetFails
  <1>8. ASSUME NEW u \in Urls, Open(u) PROVE PayloadsAreThere'
    BY <1>8 DEF Open
  <1>9. ASSUME NEW u \in Urls, Write(u) PROVE PayloadsAreThere'
    BY <1>9 DEF Write
  <1>10. ASSUME NEW u \in Urls, Rename(u) PROVE PayloadsAreThere'
    BY <1>10 DEF Rename
  <1>11. ASSUME NEW u \in Urls, RenameFails(u) PROVE PayloadsAreThere'
    BY <1>11 DEF RenameFails
  <1>12. ASSUME NEW u \in Urls, WriteFails(u) PROVE PayloadsAreThere'
    BY <1>12 DEF WriteFails
  <1>13. ASSUME Restart PROVE PayloadsAreThere'
    BY <1>13 DEF Restart, NoWorker
  <1>14. CASE UNCHANGED vars
    BY <1>14 DEF vars
  <1> QED
    BY <1>1, <1>2, <1>3, <1>4, <1>5, <1>6, <1>7, <1>8, <1>9, <1>10, <1>11, <1>12, <1>13, <1>14
       DEF Next, Reactor, Worker, Failure

\* Every step leaves the file of a lone worker to it.
LEMMA LoneStep == IInv /\ [Next]_vars => LoneWorkersFinish'
  <1> SUFFICES ASSUME IInv, [Next]_vars PROVE LoneWorkersFinish'
    OBVIOUS
  <1> USE SensorAssumption DEF IInv, TypeOK, WorkersAreSound, LoneWorkersFinish, Exclusive,
          reactorVars, diskVars, Fault
  <1>1. ASSUME NEW s \in Sessions, Connect(s) PROVE LoneWorkersFinish'
    BY <1>1 DEF Connect
  <1>2. ASSUME NEW s \in Sessions, NEW u \in Urls, Command(s, u) PROVE LoneWorkersFinish'
    <2>1. /\ fetched' = fetched \cup {u} /\ typed' = [typed EXCEPT ![s] = @ \cup {u}]
          /\ \/ UNCHANGED <<worker, gets>>
             \/ /\ worker[u].pc = "none" /\ worker[u].fd = "none" /\ gets[u] = 0
                /\ worker' = [worker EXCEPT ![u] = [pc |-> "get", for |-> s, sha |-> None, fd |-> "none"]]
                /\ gets' = [gets EXCEPT ![u] = 1]
          /\ UNCHANGED <<session, files, sent, tmp, target, faults>>
      <3> HIDE DEF IInv, TypeOK, WorkersAreSound, LoneWorkersFinish, Exclusive
      <3> QED
        BY <1>2, CommandFacts
    <2>2. CASE UNCHANGED <<worker, gets>>
      BY <2>1, <2>2
    <2>3. CASE ~ UNCHANGED <<worker, gets>>
      <3>1. /\ worker[u].pc = "none" /\ worker[u].fd = "none" /\ gets[u] = 0
            /\ worker' = [worker EXCEPT ![u] = [pc |-> "get", for |-> s, sha |-> None, fd |-> "none"]]
            /\ gets' = [gets EXCEPT ![u] = 1]
        BY <2>1, <2>3
      <3>2. /\ fetched' = fetched \cup {u} /\ typed' = [typed EXCEPT ![s] = @ \cup {u}]
            /\ UNCHANGED <<session, files, sent, tmp, target, faults>>
        BY <2>1
      <3> QED
        BY <3>1, <3>2
    <2> QED
      BY <2>2, <2>3
  <1>3. ASSUME NEW s \in Sessions, Close(s) PROVE LoneWorkersFinish'
    BY <1>3 DEF Close, Known
  <1>4. ASSUME NEW s \in Sessions, NEW u \in Urls, NEW c \in Contents, NativeDownload(s, u, c) PROVE LoneWorkersFinish'
    BY <1>4 DEF NativeDownload, Known, FileEntry
  <1>5. ASSUME NEW u \in Urls, Emit(u) PROVE LoneWorkersFinish'
    BY <1>5 DEF Emit, Known, FileEntry
  <1>6. ASSUME NEW u \in Urls, Get(u) PROVE LoneWorkersFinish'
    BY <1>6 DEF Get
  <1>7. ASSUME NEW u \in Urls, GetFails(u) PROVE LoneWorkersFinish'
    BY <1>7 DEF GetFails
  <1>8. ASSUME NEW u \in Urls, Open(u) PROVE LoneWorkersFinish'
    BY <1>8 DEF Open
  <1>9. ASSUME NEW u \in Urls, Write(u) PROVE LoneWorkersFinish'
    BY <1>9 DEF Write
  <1>10. ASSUME NEW u \in Urls, Rename(u) PROVE LoneWorkersFinish'
    BY <1>10 DEF Rename
  <1>11. ASSUME NEW u \in Urls, RenameFails(u) PROVE LoneWorkersFinish'
    BY <1>11 DEF RenameFails
  <1>12. ASSUME NEW u \in Urls, WriteFails(u) PROVE LoneWorkersFinish'
    BY <1>12 DEF WriteFails
  <1>13. ASSUME Restart PROVE LoneWorkersFinish'
    BY <1>13 DEF Restart, NoWorker
  <1>14. CASE UNCHANGED vars
    BY <1>14 DEF vars
  <1> QED
    BY <1>1, <1>2, <1>3, <1>4, <1>5, <1>6, <1>7, <1>8, <1>9, <1>10, <1>11, <1>12, <1>13, <1>14
       DEF Next, Reactor, Worker, Failure

\* No step cuts a file of a payload that one URL serves.
LEMMA ExclusiveStep == IInv /\ [Next]_vars => ExclusiveDownloadsAreWhole'
  <1> SUFFICES ASSUME IInv, [Next]_vars PROVE ExclusiveDownloadsAreWhole'
    OBVIOUS
  <1> USE SensorAssumption DEF IInv, TypeOK, WorkersAreSound, ExclusiveDownloadsAreWhole, Exclusive, LoneWorkersFinish,
          reactorVars, diskVars, Fault
  <1>1. ASSUME NEW s \in Sessions, Connect(s) PROVE ExclusiveDownloadsAreWhole'
    BY <1>1 DEF Connect
  <1>2. ASSUME NEW s \in Sessions, NEW u \in Urls, Command(s, u) PROVE ExclusiveDownloadsAreWhole'
    BY <1>2 DEF Command, NoWorker, Known
  <1>3. ASSUME NEW s \in Sessions, Close(s) PROVE ExclusiveDownloadsAreWhole'
    BY <1>3 DEF Close, Known
  <1>4. ASSUME NEW s \in Sessions, NEW u \in Urls, NEW c \in Contents, NativeDownload(s, u, c) PROVE ExclusiveDownloadsAreWhole'
    BY <1>4 DEF NativeDownload, Known, FileEntry
  <1>5. ASSUME NEW u \in Urls, Emit(u) PROVE ExclusiveDownloadsAreWhole'
    BY <1>5 DEF Emit, Known, FileEntry
  <1>6. ASSUME NEW u \in Urls, Get(u) PROVE ExclusiveDownloadsAreWhole'
    BY <1>6 DEF Get
  <1>7. ASSUME NEW u \in Urls, GetFails(u) PROVE ExclusiveDownloadsAreWhole'
    BY <1>7 DEF GetFails
  <1>8. ASSUME NEW u \in Urls, Open(u) PROVE ExclusiveDownloadsAreWhole'
    BY <1>8 DEF Open
  <1>9. ASSUME NEW u \in Urls, Write(u) PROVE ExclusiveDownloadsAreWhole'
    BY <1>9 DEF Write
  <1>10. ASSUME NEW u \in Urls, Rename(u) PROVE ExclusiveDownloadsAreWhole'
    BY <1>10 DEF Rename
  <1>11. ASSUME NEW u \in Urls, RenameFails(u) PROVE ExclusiveDownloadsAreWhole'
    BY <1>11 DEF RenameFails
  <1>12. ASSUME NEW u \in Urls, WriteFails(u) PROVE ExclusiveDownloadsAreWhole'
    BY <1>12 DEF WriteFails
  <1>13. ASSUME Restart PROVE ExclusiveDownloadsAreWhole'
    BY <1>13 DEF Restart, NoWorker
  <1>14. CASE UNCHANGED vars
    BY <1>14 DEF vars
  <1> QED
    BY <1>1, <1>2, <1>3, <1>4, <1>5, <1>6, <1>7, <1>8, <1>9, <1>10, <1>11, <1>12, <1>13, <1>14
       DEF Next, Reactor, Worker, Failure

\* A session is sent with files that are there.
LEMMA SentStep == IInv /\ [Next]_vars => SentFilesAreWhole'
  <1> SUFFICES ASSUME IInv, [Next]_vars PROVE SentFilesAreWhole'
    OBVIOUS
  <1> USE SensorAssumption DEF IInv, TypeOK, WorkersAreSound, SentFilesAreWhole, ExclusiveDownloadsAreWhole, PayloadsAreThere,
          reactorVars, diskVars, Fault
  <1>1. ASSUME NEW s \in Sessions, Connect(s) PROVE SentFilesAreWhole'
    BY <1>1 DEF Connect
  <1>2. ASSUME NEW s \in Sessions, NEW u \in Urls, Command(s, u) PROVE SentFilesAreWhole'
    BY <1>2 DEF Command, NoWorker, Known
  <1>3. ASSUME NEW s \in Sessions, Close(s) PROVE SentFilesAreWhole'
    BY <1>3 DEF Close, Known
  <1>4. ASSUME NEW s \in Sessions, NEW u \in Urls, NEW c \in Contents, NativeDownload(s, u, c) PROVE SentFilesAreWhole'
    BY <1>4 DEF NativeDownload, Known, FileEntry
  <1>5. ASSUME NEW u \in Urls, Emit(u) PROVE SentFilesAreWhole'
    BY <1>5 DEF Emit, Known, FileEntry
  <1>6. ASSUME NEW u \in Urls, Get(u) PROVE SentFilesAreWhole'
    BY <1>6 DEF Get
  <1>7. ASSUME NEW u \in Urls, GetFails(u) PROVE SentFilesAreWhole'
    BY <1>7 DEF GetFails
  <1>8. ASSUME NEW u \in Urls, Open(u) PROVE SentFilesAreWhole'
    BY <1>8 DEF Open
  <1>9. ASSUME NEW u \in Urls, Write(u) PROVE SentFilesAreWhole'
    BY <1>9 DEF Write
  <1>10. ASSUME NEW u \in Urls, Rename(u) PROVE SentFilesAreWhole'
    BY <1>10 DEF Rename
  <1>11. ASSUME NEW u \in Urls, RenameFails(u) PROVE SentFilesAreWhole'
    BY <1>11 DEF RenameFails
  <1>12. ASSUME NEW u \in Urls, WriteFails(u) PROVE SentFilesAreWhole'
    BY <1>12 DEF WriteFails
  <1>13. ASSUME Restart PROVE SentFilesAreWhole'
    BY <1>13 DEF Restart, NoWorker
  <1>14. CASE UNCHANGED vars
    BY <1>14 DEF vars
  <1> QED
    BY <1>1, <1>2, <1>3, <1>4, <1>5, <1>6, <1>7, <1>8, <1>9, <1>10, <1>11, <1>12, <1>13, <1>14
       DEF Next, Reactor, Worker, Failure

\* As long as nothing fails, every step leaves a writer to a file that is cut short.
LEMMA WriterStep == IInv /\ [Next]_vars => CutFilesHaveAWriter'
  <1> SUFFICES ASSUME IInv, [Next]_vars PROVE CutFilesHaveAWriter'
    OBVIOUS
  <1> USE SensorAssumption DEF IInv, TypeOK, WorkersAreSound, CutFilesHaveAWriter, PayloadsAreThere,
          reactorVars, diskVars, Fault
  <1>1. ASSUME NEW s \in Sessions, Connect(s) PROVE CutFilesHaveAWriter'
    BY <1>1 DEF Connect
  <1>2. ASSUME NEW s \in Sessions, NEW u \in Urls, Command(s, u) PROVE CutFilesHaveAWriter'
    <2>1. /\ fetched' = fetched \cup {u} /\ typed' = [typed EXCEPT ![s] = @ \cup {u}]
          /\ \/ UNCHANGED <<worker, gets>>
             \/ /\ worker[u].pc = "none" /\ worker[u].fd = "none" /\ gets[u] = 0
                /\ worker' = [worker EXCEPT ![u] = [pc |-> "get", for |-> s, sha |-> None, fd |-> "none"]]
                /\ gets' = [gets EXCEPT ![u] = 1]
          /\ UNCHANGED <<session, files, sent, tmp, target, faults>>
      <3> HIDE DEF IInv, TypeOK, WorkersAreSound, CutFilesHaveAWriter, PayloadsAreThere
      <3> QED
        BY <1>2, CommandFacts
    <2>2. CASE UNCHANGED <<worker, gets>>
      BY <2>1, <2>2
    <2>3. CASE ~ UNCHANGED <<worker, gets>>
      <3>1. /\ worker[u].pc = "none" /\ worker[u].fd = "none" /\ gets[u] = 0
            /\ worker' = [worker EXCEPT ![u] = [pc |-> "get", for |-> s, sha |-> None, fd |-> "none"]]
            /\ gets' = [gets EXCEPT ![u] = 1]
        BY <2>1, <2>3
      <3>2. /\ fetched' = fetched \cup {u} /\ typed' = [typed EXCEPT ![s] = @ \cup {u}]
            /\ UNCHANGED <<session, files, sent, tmp, target, faults>>
        BY <2>1
      <3> QED
        BY <3>1, <3>2
    <2> QED
      BY <2>2, <2>3
  <1>3. ASSUME NEW s \in Sessions, Close(s) PROVE CutFilesHaveAWriter'
    BY <1>3 DEF Close, Known
  <1>4. ASSUME NEW s \in Sessions, NEW u \in Urls, NEW c \in Contents, NativeDownload(s, u, c) PROVE CutFilesHaveAWriter'
    BY <1>4 DEF NativeDownload, Known, FileEntry
  <1>5. ASSUME NEW u \in Urls, Emit(u) PROVE CutFilesHaveAWriter'
    BY <1>5 DEF Emit, Known, FileEntry
  <1>6. ASSUME NEW u \in Urls, Get(u) PROVE CutFilesHaveAWriter'
    BY <1>6 DEF Get
  <1>7. ASSUME NEW u \in Urls, GetFails(u) PROVE CutFilesHaveAWriter'
    BY <1>7 DEF GetFails
  <1>8. ASSUME NEW u \in Urls, Open(u) PROVE CutFilesHaveAWriter'
    BY <1>8 DEF Open
  <1>9. ASSUME NEW u \in Urls, Write(u) PROVE CutFilesHaveAWriter'
    <2>1. worker' = [worker EXCEPT ![u].pc = "rename", ![u].fd = "none"] /\ worker[u].sha \in Contents
      BY <1>9 DEF Write
    <2>2. /\ \A v \in Urls : worker'[v].sha = worker[v].sha
          /\ \A v \in Urls \ {u} : worker'[v] = worker[v]
          /\ worker'[u].pc = "rename"
      BY <2>1
    <2>3. \A c \in Contents : /\ tmp'[c] = "partial" => tmp[c] = "partial" /\ ~ (worker[u].sha = c /\ worker[u].fd = "tmp")
                              /\ target'[c] = "partial" => target[c] = "partial" /\ ~ (worker[u].sha = c /\ worker[u].fd = "target")
      BY <1>9, <2>1 DEF Write
    <2>4. \A c \in Contents : target[c] # "none" => target'[c] # "none"
      BY <1>9, <2>1 DEF Write
    <2>5. faults' = faults
      BY <1>9 DEF Write
    <2>6. ASSUME faults = 0, NEW c \in Contents, tmp'[c] = "partial"
          PROVE  \E v \in Urls : worker'[v].sha = c /\ worker'[v].fd = "tmp"
      <3>1. PICK v \in Urls : worker[v].sha = c /\ worker[v].fd = "tmp"
        BY <2>3, <2>6
      <3> QED
        BY <2>2, <2>3, <2>6, <3>1
    <2>7. ASSUME faults = 0, NEW c \in Contents, target'[c] = "partial"
          PROVE  \E v \in Urls : worker'[v].sha = c /\ worker'[v].fd = "target"
      <3>1. PICK v \in Urls : worker[v].sha = c /\ worker[v].fd = "target"
        BY <2>3, <2>7
      <3> QED
        BY <2>2, <2>3, <2>7, <3>1
    <2>8. ASSUME faults = 0, NEW v \in Urls, worker'[v].pc = "done", worker'[v].sha # None
          PROVE  target'[worker'[v].sha] # "none"
      <3>1. v # u /\ worker'[v] = worker[v] /\ worker[v].sha \in Contents
        BY <2>2, <2>8
      <3> QED
        BY <2>4, <2>8, <3>1
    <2> QED
      BY <2>5, <2>6, <2>7, <2>8
  <1>10. ASSUME NEW u \in Urls, Rename(u) PROVE CutFilesHaveAWriter'
    <2> DEFINE c == worker[u].sha
    <2>1. c \in Contents /\ tmp[c] # "none" /\ worker[u].pc = "rename" /\ faults' = faults
      BY <1>10 DEF Rename
    <2>2. /\ \A v \in Urls : worker'[v].sha = worker[v].sha
          /\ \A v \in Urls \ {u} : worker'[v].pc = worker[v].pc
          /\ worker'[u].pc = "emit"
          /\ \A v \in Urls \ {u} : worker[v].sha # c => worker'[v].fd = worker[v].fd
          /\ \A v \in Urls \ {u} : worker[v].sha = c /\ worker[v].fd = "tmp" => worker'[v].fd = "target"
      BY <1>10 DEF Rename
    <2>3. tmp'[c] = "none" /\ target'[c] = tmp[c] /\ \A d \in Contents \ {c} : tmp'[d] = tmp[d] /\ target'[d] = target[d]
      BY <1>10, <2>1 DEF Rename
    <2>4. worker[u].fd = "none"
      BY <2>1
    <2> HIDE DEF c
    <2>5. ASSUME faults = 0, NEW d \in Contents, tmp'[d] = "partial"
          PROVE  \E v \in Urls : worker'[v].sha = d /\ worker'[v].fd = "tmp"
      <3>1. d # c /\ tmp[d] = "partial"
        BY <2>3, <2>5
      <3>2. PICK v \in Urls : worker[v].sha = d /\ worker[v].fd = "tmp"
        BY <2>5, <3>1
      <3> QED
        BY <2>2, <2>4, <3>1, <3>2
    <2>6. ASSUME faults = 0, NEW d \in Contents, target'[d] = "partial"
          PROVE  \E v \in Urls : worker'[v].sha = d /\ worker'[v].fd = "target"
      <3>1. CASE d = c
        <4>1. PICK v \in Urls : worker[v].sha = c /\ worker[v].fd = "tmp"
          BY <2>3, <2>6, <3>1
        <4> QED
          BY <2>2, <2>4, <3>1, <4>1
      <3>2. CASE d # c
        <4>1. PICK v \in Urls : worker[v].sha = d /\ worker[v].fd = "target"
          BY <2>3, <2>6, <3>2
        <4> QED
          BY <2>2, <2>4, <3>2, <4>1
      <3> QED
        BY <3>1, <3>2
    <2>7. ASSUME faults = 0, NEW v \in Urls, worker'[v].pc = "done", worker'[v].sha # None
          PROVE  target'[worker'[v].sha] # "none"
      <3>1. worker[v].pc = "done" /\ worker'[v].sha = worker[v].sha /\ worker[v].sha \in Contents
        BY <2>2, <2>7
      <3>2. target[worker[v].sha] # "none"
        BY <2>7, <3>1
      <3> QED
        BY <2>1, <2>3, <3>1, <3>2
    <2> QED
      BY <2>1, <2>5, <2>6, <2>7
  <1>11. ASSUME NEW u \in Urls, RenameFails(u) PROVE CutFilesHaveAWriter'
    BY <1>11 DEF RenameFails
  <1>12. ASSUME NEW u \in Urls, WriteFails(u) PROVE CutFilesHaveAWriter'
    BY <1>12 DEF WriteFails
  <1>13. ASSUME Restart PROVE CutFilesHaveAWriter'
    BY <1>13 DEF Restart, NoWorker
  <1>14. CASE UNCHANGED vars
    BY <1>14 DEF vars
  <1> QED
    BY <1>1, <1>2, <1>3, <1>4, <1>5, <1>6, <1>7, <1>8, <1>9, <1>10, <1>11, <1>12, <1>13, <1>14
       DEF Next, Reactor, Worker, Failure

-----------------------------------------------------------------------------
(***************************************************************************)
(* The theorems.                                                           *)
(***************************************************************************)

\* The invariant holds in every state.
LEMMA Invariance == Spec => []IInv
  <1>1. IInv /\ [Next]_vars => IInv'
    BY TypeStep, WorkersStep, PayloadsStep, LoneStep, ExclusiveStep, SentStep, WriterStep DEF IInv
  <1> QED
    BY <1>1, InitSensor, PTL DEF Spec

\* What the downloads directory holds and what sessions are sent with, whatever
\* the threads of the URL fetcher, the reactor and the faults do in between.
THEOREM SensorCorrect == Spec => []SensorInv
  <1>1. IInv => SensorInv
    <2> SUFFICES ASSUME IInv PROVE SensorInv
      OBVIOUS
    <2>1. HotUrlFetchedOnce
      BY DEF IInv, WorkersAreSound, HotUrlFetchedOnce
    <2>2. SharedPayloadSurvives
      BY DEF IInv, TypeOK, PayloadsAreThere, CutFilesHaveAWriter, SharedPayloadSurvives
    <2> QED
      BY <2>1, <2>2 DEF IInv, SensorInv
  <1> QED
    BY <1>1, Invariance, PTL

-----------------------------------------------------------------------------
(***************************************************************************)
(* The inductive invariant of a transfer.                                  *)
(***************************************************************************)
TftpState == [block : Nat, acked : Nat, sent : Nat, retries : Nat, timer : BOOLEAN, stray : BOOLEAN,
              port : {"off", "open", "draining", "closed"}]

\* The variables keep their types. `events' is left to Reported.
TransferShape ==
    /\ job \in Jobs
    /\ pc \in {"start", "resolve", "connect", "cwd", "body", "dropped", "quit", "end"}
    /\ stacked \in BOOLEAN /\ live \in BOOLEAN
    /\ seen \in 0 .. job.total /\ content \in Seq(Nat)
    /\ file \in {"none", "temp", "stored", "removed"} /\ fp \in {"open", "closed"}
    /\ entry \in {"none", "bare", "backed"}
    /\ odd \subseteq {"ctrlc", "over", "raised", "directory"}
    /\ tftp \in TftpState /\ tftp.retries < MaxRetries + 1 /\ tftp.block < BlockWrap

\* How much of the remote file a transfer has, by what fetches it; every chunk
\* is in its place.
ContentIsDue ==
    /\ \A i \in 1 .. Len(content) : content[i] = i
    /\ job.kind \in {"wget", "wgetftp", "curl"} =>
         IF Limit > 0 /\ seen > Limit THEN Len(content) = Limit /\ "over" \in odd ELSE Len(content) = seen
    /\ job.kind = "ftpget" => Len(content) = seen
    /\ job.kind = "tftp" => Len(content) <= Blocks
    /\ job.kind \in {"curlhead", "nc", "scp"} => content = <<>>
    /\ "over" \in odd => Limit > 0 /\ seen > Limit /\ job.kind \in {"wget", "wgetftp", "curl"}

\* Who waits for which callback, and what of the artifact is there by then.
StageIsRight ==
    /\ pc \in {"start", "resolve"} => seen = 0 /\ content = <<>> /\ file = "none" /\ fp = "closed"
    /\ pc = "connect" => job.kind \in Http \cup Ftp
    /\ pc = "cwd" => job.kind \in Ftp
    /\ pc = "dropped" => job.kind = "wgetftp" /\ "over" \in odd
    /\ "over" \in odd => ~stacked /\ pc \in {"body", "dropped", "end"}
    /\ pc = "quit" => job.kind = "ftpget" /\ seen = job.total
    /\ pc \notin {"start", "resolve", "end"} /\ job.kind # "scp" => file = "temp" /\ fp = "open"
    /\ job.kind \in {"nc", "scp"} => file = "none"
    /\ pc # "end" => events = <<>> /\ entry = "none"
    /\ pc # "end" /\ odd = {} /\ live /\ job.kind # "scp" => stacked

\* The TFTP client counts what it has, and no block is ahead of its acknowledgement.
TftpInStep ==
    /\ job.kind # "tftp" => tftp.port = "off"
    /\ pc \in {"start", "resolve"} => tftp.port = "off"
    /\ tftp.port = "off" => tftp.block = 0 /\ tftp.sent = 0 /\ tftp.acked = 0 /\ tftp.retries = 0
    /\ job.kind = "tftp" => tftp.port = "open" <=> pc = "body"
    /\ tftp.port \in {"draining", "closed"} => fp = "closed"
    /\ tftp.port = "open" => /\ tftp.block = Len(content) /\ tftp.retries < MaxRetries
                             /\ tftp.sent <= tftp.acked + 1 /\ tftp.sent <= Blocks
    /\ tftp.port = "open" /\ BlockWrap > 1 => tftp.acked <= Len(content)

Event == [what : {"download", "failed"}, hashed : BOOLEAN, data : Seq(Nat)]

\* What was reported is what the artifact holds.
Reported ==
    /\ events \in Seq(Event)
    /\ \A i \in DOMAIN events : events[i].what = "download" =>
         /\ events[i].data = content
         /\ job.declared /\ "over" \notin odd => content = Whole
         /\ events[i].hashed => file = "stored" /\ fp = "closed"
    /\ entry = "backed" => file = "stored" /\ fp = "closed"
    /\ "over" \in odd /\ live /\ pc = "end" => \E i \in DOMAIN events : events[i].what = "failed"

TransferIInv ==
    TransferShape /\ ContentIsDue /\ StageIsRight /\ TftpInStep /\ Reported /\ TransfersEnd

-----------------------------------------------------------------------------
(***************************************************************************)
(* The steps of a transfer.                                                *)
(***************************************************************************)
\* What a job is.
LEMMA JobFacts ==
    ASSUME job \in Jobs
    PROVE  /\ job.kind \in {"wget", "wgetftp", "curl", "curlhead", "ftpget", "tftp", "nc", "scp"}
           /\ job.total \in Nat /\ job.total <= MaxTotal /\ job.toFile \in BOOLEAN /\ job.declared \in BOOLEAN
           /\ job.dest \in {"ok", "refused"} /\ job.host \in Hosts /\ job.named \in BOOLEAN
           /\ Blocks \in Nat /\ Blocks = (IF job.kind = "tftp" THEN job.total + 1 ELSE job.total)
  <1>1. MaxTotal \in Nat /\ Kinds \subseteq {"wget", "wgetftp", "curl", "curlhead", "ftpget", "tftp", "nc", "scp"}
    BY TransfersAssumption
  <1>2. job \in [kind : Kinds, toFile : BOOLEAN, total : 0..MaxTotal, declared : BOOLEAN,
                 dest : {"ok", "refused"}, host : Hosts, named : BOOLEAN]
    BY DEF Jobs
  <1>3. job.kind \in Kinds /\ job.total \in 0..MaxTotal /\ job.toFile \in BOOLEAN /\ job.declared \in BOOLEAN
         /\ job.dest \in {"ok", "refused"} /\ job.host \in Hosts /\ job.named \in BOOLEAN
    BY <1>2
  <1>4. Blocks = (IF job.kind = "tftp" THEN job.total + 1 ELSE job.total)
    BY DEF Blocks
  <1>5. job.total \in Nat /\ job.total <= MaxTotal /\ Blocks \in Nat
    BY <1>1, <1>3, <1>4
  <1> QED
    BY <1>1, <1>3, <1>4, <1>5

\* A step before the transfer, or one that leaves its part of the state alone.
LEMMA TransferIdle ==
    ASSUME TransferIInv, UNCHANGED <<job, pc, stacked, live, work, odd, tftp>>
    PROVE  TransferIInv'
  BY DEF TransferIInv, TransferShape, ContentIsDue, StageIsRight, TftpInStep, Reported, TransfersEnd, OneOutcome,
         ControlReturns, TftpHasTimer, work, Blocks, Whole, TooLarge

\* The command leaves the stack and nothing else happens: before there is an
\* artifact, or where the code means to say nothing.
LEMMA TransferQuits ==
    ASSUME TransferIInv, Quit, UNCHANGED <<job, live, work, odd, tftp>>,
           pc \in {"start", "resolve", "connect"} \/ job.kind = "scp", pc # "end",
           file = "none" \/ job.kind = "curlhead" \/ (TooLarge /\ job.kind \in {"wget", "curl"})
    PROVE  TransferIInv'
  <1>1. TransferShape'
    BY DEF TransferIInv, TransferShape, Quit, work
  <1>2. ContentIsDue'
    BY DEF TransferIInv, ContentIsDue, Blocks, work
  <1>3. StageIsRight'
    BY DEF TransferIInv, StageIsRight, Quit, work, Http, Ftp
  <1>4. TftpInStep'
    BY JobFacts DEF TransferIInv, TransferShape, StageIsRight, TftpInStep, Quit, Blocks, work
  <1>5. Reported'
    BY DEF TransferIInv, Reported, StageIsRight, ContentIsDue, Whole, Blocks, work
  <1>6. TransfersEnd'
    BY JobFacts DEF TransferIInv, TransferShape, StageIsRight, TftpInStep, TransfersEnd, OneOutcome,
         ControlReturns, TftpHasTimer, TooLarge, Quit, work
  <1> QED
    BY <1>1, <1>2, <1>3, <1>4, <1>5, <1>6 DEF TransferIInv

\* The callback p that the command goes on to.
GoesOn(p) ==
    \/ pc = "start" /\ p = "resolve"
    \/ pc = "connect" /\ job.kind \in Ftp /\ p = "cwd"
    \/ pc = "connect" /\ job.kind \in {"wget", "curl"} /\ p = "body"
    \/ pc = "cwd" /\ job.kind \in Ftp /\ p = "body"
    \/ pc = "body" /\ job.kind = "ftpget" /\ seen = job.total /\ p = "quit"

\* The command goes on to its next callback.
LEMMA TransferGoesOn ==
    ASSUME TransferIInv, NEW p, GoesOn(p), pc' = p, UNCHANGED <<job, stacked, live, work, odd, tftp>>
    PROVE  TransferIInv'
  <1>0. /\ p \in {"resolve", "cwd", "body", "quit"} /\ pc # "end"
        /\ (pc # "start" => job.kind \in {"ftpget", "wgetftp", "wget", "curl"})
    BY DEF GoesOn, Ftp
  <1>1. TransferShape'
    BY <1>0 DEF TransferIInv, TransferShape, work
  <1>2. ContentIsDue'
    BY DEF TransferIInv, ContentIsDue, Blocks, work
  <1>3. StageIsRight'
    BY DEF TransferIInv, StageIsRight, ContentIsDue, GoesOn, work, Http, Ftp
  <1>4. TftpInStep'
    BY <1>0 DEF TransferIInv, TransferShape, StageIsRight, TftpInStep, GoesOn, Blocks, work
  <1>5. Reported'
    BY <1>0 DEF TransferIInv, Reported, StageIsRight, Whole, Blocks, work
  <1>6. TransfersEnd'
    BY <1>0 DEF TransferIInv, TransferShape, StageIsRight, TransfersEnd, OneOutcome,
         ControlReturns, TftpHasTimer, TooLarge, work
  <1> QED
    BY <1>1, <1>2, <1>3, <1>4, <1>5, <1>6 DEF TransferIInv

\* start() raises: the command stays on the stack and no artifact was made.
LEMMA TransferRaises ==
    ASSUME TransferIInv, Raises, pc = "start"
    PROVE  TransferIInv'
  <1>1. TransferShape'
    BY DEF TransferIInv, TransferShape, Raises, work
  <1>2. ContentIsDue'
    BY DEF TransferIInv, ContentIsDue, Raises, Blocks, work
  <1>3. StageIsRight'
    BY DEF TransferIInv, StageIsRight, Raises, work, Http, Ftp
  <1>4. TftpInStep'
    BY JobFacts DEF TransferIInv, TransferShape, StageIsRight, TftpInStep, Raises, Blocks, work
  <1>5. Reported'
    BY DEF TransferIInv, Reported, StageIsRight, Raises, Whole, Blocks, work
  <1>6. TransfersEnd'
    BY JobFacts DEF TransferIInv, TransferShape, StageIsRight, TftpInStep, TransfersEnd, OneOutcome,
         ControlReturns, TftpHasTimer, TooLarge, Raises, work
  <1> QED
    BY <1>1, <1>2, <1>3, <1>4, <1>5, <1>6 DEF TransferIInv

\* scp begins to take its input.
LEMMA TransferScpStart ==
    ASSUME TransferIInv, ScpStart, pc = "start"
    PROVE  TransferIInv'
  <1>1. TransferShape'
    BY DEF TransferIInv, TransferShape, ScpStart, work
  <1>2. ContentIsDue'
    BY DEF TransferIInv, ContentIsDue, ScpStart, Blocks, work
  <1>3. StageIsRight'
    BY DEF TransferIInv, StageIsRight, ScpStart, work, Http, Ftp
  <1>4. TftpInStep'
    BY DEF TransferIInv, TransferShape, StageIsRight, TftpInStep, ScpStart, Blocks, work
  <1>5. Reported'
    BY DEF TransferIInv, Reported, ScpStart, Whole, Blocks, work
  <1>6. TransfersEnd'
    BY DEF TransferIInv, TransferShape, StageIsRight, TftpInStep, TransfersEnd, OneOutcome,
         ControlReturns, TftpHasTimer, TooLarge, ScpStart, work
  <1> QED
    BY <1>1, <1>2, <1>3, <1>4, <1>5, <1>6 DEF TransferIInv

\* start(), however it ends.
LEMMA TransferStarts ==
    ASSUME TransferIInv, Start
    PROVE  TransferIInv'
  <1>1. pc = "start" /\ file = "none"
    BY DEF TransferIInv, StageIsRight, Start
  <1>2. CASE Quit /\ UNCHANGED <<job, live, work, odd, tftp>>
    BY <1>1, <1>2, TransferQuits
  <1>3. CASE ToResolve
    BY <1>1, <1>3, TransferGoesOn DEF ToResolve, GoesOn
  <1>4. CASE Raises
    BY <1>1, <1>4, TransferRaises
  <1>5. CASE ScpStart
    BY <1>1, <1>5, TransferScpStart
  <1> QED
    BY <1>2, <1>3, <1>4, <1>5 DEF Start, WgetStart, CurlStart, NcStart, FtpgetStart, TftpStart, Abandon, Limited

\* The artifact grows by the next chunk.
LEMMA Grown ==
    ASSUME NEW s \in Seq(Nat), \A i \in 1 .. Len(s) : s[i] = i, NEW c, c = Append(s, Len(s) + 1)
    PROVE  /\ c \in Seq(Nat) /\ Len(c) = Len(s) + 1 /\ \A i \in 1 .. Len(c) : c[i] = i
  OBVIOUS

\* Sequences of one and of two events.
LEMMA FewEvents ==
    ASSUME NEW d \in Event, NEW e \in Event
    PROVE  /\ <<d>> \in Seq(Event) /\ Len(<<d>>) = 1 /\ DOMAIN <<d>> = {1} /\ <<d>>[1] = d
           /\ <<d, e>> \in Seq(Event) /\ DOMAIN <<d, e>> = {1, 2} /\ <<d, e>>[1] = d /\ <<d, e>>[2] = e
           /\ Append(<<>>, d) = <<d>>
           /\ <<>> \o <<d>> \o <<>> = <<d>> /\ <<>> \o <<d>> \o <<e>> = <<d, e>>
           /\ <<>> \o <<>> \o <<d>> = <<d>>
  <1>1. /\ <<d>> \in Seq(Event) /\ Len(<<d>>) = 1 /\ DOMAIN <<d>> = {1} /\ <<d>>[1] = d
        /\ <<d, e>> \in Seq(Event) /\ DOMAIN <<d, e>> = {1, 2} /\ <<d, e>>[1] = d /\ <<d, e>>[2] = e
        /\ Append(<<>>, d) = <<d>>
    OBVIOUS
  <1>2. <<>> \o <<d>> = <<d>> /\ <<>> \o <<>> = <<>>
    OBVIOUS
  <1>3. <<d>> \o <<>> = <<d>>
    OBVIOUS
  <1>4. <<d>> \o <<e>> = Append(<<d>>, e)
    BY <1>1, AppendIsConcat
  <1>5. Append(<<d>>, e) = <<d, e>>
    <2>1. /\ Append(<<d>>, e) \in Seq(Event) /\ Len(Append(<<d>>, e)) = 2
          /\ Append(<<d>>, e)[1] = d /\ Append(<<d>>, e)[2] = e
      BY <1>1, AppendProperties
    <2>2. Len(<<d, e>>) = 2 /\ \A i \in 1 .. 2 : Append(<<d>>, e)[i] = <<d, e>>[i]
      BY <1>1, <2>1
    <2> QED
      BY <1>1, <2>1, <2>2, SeqEqual
  <1> QED
    BY <1>1, <1>2, <1>3, <1>4, <1>5

\* One more block on its way.
LEMMA SentFields ==
    ASSUME tftp \in TftpState, NEW t, t = [tftp EXCEPT !.sent = tftp.sent + 1]
    PROVE  /\ t \in TftpState /\ t.sent = tftp.sent + 1 /\ t.port = tftp.port /\ t.retries = tftp.retries
           /\ t.block = tftp.block /\ t.acked = tftp.acked /\ t.timer = tftp.timer /\ t.stray = tftp.stray
  BY DEF TftpState

\* A file that has all its chunks is the remote one.
LEMMA FullIsWhole ==
    ASSUME content \in Seq(Nat), \A i \in 1 .. Len(content) : content[i] = i, Len(content) = Blocks
    PROVE  content = Whole
  BY DEF Whole

\* What is dispatched to the outputs.
LEMMA EventFacts ==
    ASSUME content \in Seq(Nat)
    PROVE  /\ Failed \in Event /\ Failed.what = "failed"
           /\ \A b \in BOOLEAN : LET d == Dispatch("download", b)
                                 IN  d \in Event /\ d.what = "download" /\ d.hashed = b /\ d.data = content
  BY DEF Failed, Dispatch, Event

\* The artifact is made, and the transfer waits to be connected.
LEMMA TransferConnects ==
    ASSUME TransferIInv, pc = "resolve", job.kind \in {"wget", "wgetftp", "curl", "curlhead", "ftpget"},
           pc' = "connect", NewArtifact, UNCHANGED <<job, stacked, live, odd, tftp>>
    PROVE  TransferIInv'
  <1> USE JobFacts DEF TransferIInv, TransferShape, StageIsRight, work, NewArtifact
  <1>1. TransferShape'
    OBVIOUS
  <1>2. ContentIsDue'
    BY DEF ContentIsDue, Blocks
  <1>3. StageIsRight'
    BY DEF Http, Ftp
  <1>4. TftpInStep'
    BY DEF TftpInStep, Blocks
  <1>5. Reported'
    BY DEF Reported, Whole, Blocks
  <1>6. TransfersEnd'
    BY DEF TftpInStep, TransfersEnd, OneOutcome,
         ControlReturns, TftpHasTimer, TooLarge
  <1> QED
    BY <1>1, <1>2, <1>3, <1>4, <1>5, <1>6

\* A URL that names a directory.
LEMMA TransferFtpBegin ==
    ASSUME TransferIInv, pc = "resolve", FtpBegin, pc' # "connect"
    PROVE  TransferIInv'
  <1> USE JobFacts DEF TransferIInv, TransferShape, StageIsRight, work, NewArtifact, FtpBegin, Quit
  <1>1. TransferShape'
    OBVIOUS
  <1>2. ContentIsDue'
    BY DEF ContentIsDue, Blocks
  <1>3. StageIsRight'
    BY DEF Http, Ftp
  <1>4. TftpInStep'
    BY DEF TftpInStep, Blocks
  <1>5. Reported'
    BY DEF Reported, Whole, Blocks
  <1>6. TransfersEnd'
    BY DEF TftpInStep, TransfersEnd, OneOutcome,
         ControlReturns, TftpHasTimer, TooLarge
  <1> QED
    BY <1>1, <1>2, <1>3, <1>4, <1>5, <1>6

\* startProtocol sends the read request.
LEMMA TransferTftpBegin ==
    ASSUME TransferIInv, pc = "resolve", TftpBegin, ~job.named
    PROVE  TransferIInv'
  <1> USE JobFacts DEF TransferIInv, TransferShape, StageIsRight, work, NewArtifact, TftpBegin, TftpState
  <1>0. /\ tftp'.block = tftp.block /\ tftp'.sent = tftp.sent /\ tftp'.acked = tftp.acked /\ tftp'.retries = tftp.retries
        /\ tftp'.port = "open" /\ content' = <<>> /\ Len(content') = 0 /\ Blocks' = Blocks /\ tftp.port = "off"
    BY DEF TftpInStep, Blocks
  <1>1. TransferShape'
    OBVIOUS
  <1>2. ContentIsDue'
    BY DEF ContentIsDue, Blocks
  <1>3. StageIsRight'
    BY DEF Http, Ftp
  <1>4. TftpInStep'
    <2>1. MaxRetries > 0 /\ Blocks \in Nat /\ pc' = "body" /\ fp' = "open" /\ job' = job /\ job.kind = "tftp"
      BY TransfersAssumption
    <2>2. tftp'.block = 0 /\ tftp'.sent = 0 /\ tftp'.acked = 0 /\ tftp'.retries = 0
      BY <1>0 DEF TftpInStep
    <2> HIDE DEF TransferIInv, TransferShape, StageIsRight, work, NewArtifact, TftpBegin, TftpState
    <2> QED
      BY <1>0, <2>1, <2>2 DEF TftpInStep
  <1>5. Reported'
    BY DEF Reported, Whole, Blocks
  <1>6. TransfersEnd'
    BY DEF TftpInStep, TransfersEnd, OneOutcome,
         ControlReturns, TftpHasTimer, TooLarge
  <1> QED
    BY <1>1, <1>2, <1>3, <1>4, <1>5, <1>6

\* A host name makes sendRRQ raise: the artifact is there and nothing else.
LEMMA TransferTftpNamed ==
    ASSUME TransferIInv, pc = "resolve", TftpBegin, job.named
    PROVE  TransferIInv'
  <1> USE JobFacts DEF TransferIInv, TransferShape, StageIsRight, work, NewArtifact
  <1>0. /\ job.kind = "tftp" /\ pc' = "end" /\ file' = "temp" /\ fp' = "open"
        /\ UNCHANGED <<job, stacked, live, odd, tftp, seen, content, entry, events>>
    BY DEF TftpBegin
  <1>1. TransferShape'
    BY <1>0
  <1>2. ContentIsDue'
    BY <1>0 DEF ContentIsDue, Blocks
  <1>3. StageIsRight'
    BY <1>0 DEF Http, Ftp
  <1>4. TftpInStep'
    BY <1>0 DEF TftpInStep, Blocks
  <1>5. Reported'
    BY <1>0 DEF Reported, Whole, Blocks, ContentIsDue
  <1>6. TransfersEnd'
    BY <1>0 DEF TftpInStep, TransfersEnd, OneOutcome,
         ControlReturns, TftpHasTimer, TooLarge
  <1> QED
    BY <1>1, <1>2, <1>3, <1>4, <1>5, <1>6

\* The host may be talked to.
LEMMA TransferAllowed ==
    ASSUME TransferIInv, Allowed
    PROVE  TransferIInv'
  <1>1. pc = "resolve" /\ file = "none"
    BY DEF TransferIInv, StageIsRight, Allowed
  <1>2. CASE pc' = "connect" /\ NewArtifact /\ job.kind \in {"wget", "wgetftp", "curl", "curlhead", "ftpget"}
             /\ UNCHANGED <<job, stacked, live, odd, tftp>>
    BY <1>1, <1>2, TransferConnects
  <1>3. CASE FtpBegin /\ pc' # "connect"
    BY <1>1, <1>3, TransferFtpBegin
  <1>4. CASE TftpBegin
    BY <1>1, <1>4, TransferTftpBegin, TransferTftpNamed
  <1>5. CASE NcRun
    BY <1>1, <1>5, TransferQuits DEF NcRun, Abandon
  <1>6. CASE FtpBegin /\ pc' = "connect"
    <2>1. UNCHANGED <<stacked, odd>>
      BY <1>6 DEF FtpBegin, Quit
    <2> QED
      BY <1>6, <1>2, <2>1 DEF FtpBegin
  <1> QED
    BY <1>2, <1>3, <1>4, <1>5, <1>6 DEF Allowed, WgetBegin, CurlBegin, FtpgetBegin

\* error() of wget and curl.
LEMMA TransferErrs ==
    ASSUME TransferIInv, WgetError, pc \in {"connect", "cwd", "body", "dropped"},
           job.kind \in {"wget", "wgetftp", "curl", "curlhead"}
    PROVE  TransferIInv'
  <1> USE JobFacts DEF TransferIInv, TransferShape, StageIsRight, work, WgetError, Quit
  <1>a. events = <<>> /\ Failed \in Event /\ Failed.what = "failed" /\ Append(events, Failed) = <<Failed>>
    <2>1. events = <<>> /\ Failed \in Event /\ Failed.what = "failed"
      BY EventFacts
    <2> QED
      BY <2>1, FewEvents
  <1>0. events' = <<Failed>> /\ Failed \in Event /\ Failed.what = "failed" /\ Len(<<Failed>>) = 1
    BY <1>a, FewEvents
  <1>1. TransferShape'
    OBVIOUS
  <1>2. ContentIsDue'
    BY DEF ContentIsDue, Blocks
  <1>3. StageIsRight'
    BY <1>0 DEF Http, Ftp
  <1>4. TftpInStep'
    BY DEF TftpInStep, Blocks
  <1>5. Reported'
    BY <1>0 DEF Reported, Whole, Blocks
  <1>6. TransfersEnd'
    BY <1>0 DEF TftpInStep, TransfersEnd, OneOutcome,
         ControlReturns, TftpHasTimer, TooLarge
  <1> QED
    BY <1>1, <1>2, <1>3, <1>4, <1>5, <1>6

\* What arrived is within the limit.
LEMMA TransferCollects ==
    ASSUME TransferIInv, pc = "body", job.kind \in {"wget", "wgetftp", "curl"}, seen < job.total, WgetCollect,
           ~(Limit > 0 /\ seen + 1 > Limit)
    PROVE  TransferIInv'
  <1> USE JobFacts DEF TransferIInv, TransferShape, StageIsRight, work, WgetCollect
  <1>s. seen + 1 \in 0 .. job.total
    OBVIOUS
  <1> USE TransfersAssumption
  <1>a. Len(content) = seen /\ Limit \in Nat
    BY DEF ContentIsDue
  <1>0. /\ content' \in Seq(Nat) /\ Len(content') = Len(content) + 1 /\ \A i \in 1 .. Len(content') : content'[i] = i
        /\ seen' = seen + 1 /\ UNCHANGED <<pc, stacked, odd, file, fp, entry, events, job, live, tftp>>
    BY <1>a, Grown DEF ContentIsDue
  <1> HIDE DEF WgetCollect
  <1>1. TransferShape'
    <2>1. job'.total = job.total
      BY <1>0
    <2> QED
      BY <1>0, <1>s, <2>1
  <1>2. ContentIsDue'
    <2>1. "over" \notin odd /\ seen \in Nat
      BY DEF ContentIsDue
    <2>2. Len(content') = seen' /\ ~(Limit > 0 /\ seen' > Limit) /\ "over" \notin odd' /\ job' = job
      BY <1>0, <1>a, <2>1
    <2> HIDE DEF TransferIInv, TransferShape, StageIsRight
    <2> QED
      BY <1>0, <2>2 DEF ContentIsDue
  <1>3. StageIsRight'
    BY <1>0 DEF Http, Ftp
  <1>4. TftpInStep'
    BY <1>0 DEF TftpInStep, Blocks
  <1>5. Reported'
    BY <1>0 DEF Reported, Whole, Blocks
  <1>6. TransfersEnd'
    BY <1>0 DEF TftpInStep, TransfersEnd, OneOutcome,
         ControlReturns, TftpHasTimer, TooLarge
  <1> QED
    BY <1>1, <1>2, <1>3, <1>4, <1>5, <1>6

\* A chunk above the limit: the first one calls exit().
LEMMA TransferOverflows ==
    ASSUME TransferIInv, pc = "body", job.kind \in {"wget", "wgetftp", "curl"}, seen < job.total, WgetCollect,
           Limit > 0 /\ seen + 1 > Limit
    PROVE  TransferIInv'
  <1> USE JobFacts DEF TransferIInv, TransferShape, StageIsRight, work
  <1>s. seen + 1 \in 0 .. job.total
    OBVIOUS
  <1>a. Len(content) = Limit /\ Limit \in Nat
    BY TransfersAssumption DEF ContentIsDue
  <1>b. events = <<>> /\ Failed \in Event /\ Failed.what = "failed" /\ Append(events, Failed) = <<Failed>>
    <2>1. events = <<>> /\ Failed \in Event /\ Failed.what = "failed"
      BY EventFacts
    <2> QED
      BY <2>1, FewEvents
  <1>0. /\ seen' = seen + 1 /\ odd' = odd \cup {"over"} /\ stacked' = FALSE
        /\ UNCHANGED <<content, file, fp, entry, job, live, tftp>>
        /\ \/ UNCHANGED <<pc, events>>
           \/ job.kind = "wgetftp" /\ pc' = "dropped" /\ UNCHANGED events
           \/ pc' = "end" /\ events' = <<Failed>>
    BY <1>b DEF WgetCollect
  <1>1. TransferShape'
    <2>1. job'.total = job.total
      BY <1>0
    <2> QED
      BY <1>0, <1>s, <2>1
  <1>2. ContentIsDue'
    BY <1>0, <1>a DEF ContentIsDue, Blocks
  <1>3. StageIsRight'
    BY <1>0, <1>b DEF Http, Ftp
  <1>4. TftpInStep'
    BY <1>0 DEF TftpInStep, Blocks
  <1>5. Reported'
    <2>1. CASE events' = events
      BY <1>0, <2>1 DEF Reported, Whole, Blocks
    <2>2. CASE events' = <<Failed>>
      BY <1>0, <1>b, <2>2 DEF Reported
    <2> QED
      BY <1>0, <2>1, <2>2
  <1>6. TransfersEnd'
    BY <1>0, <1>b DEF TftpInStep, TransfersEnd, OneOutcome,
         ControlReturns, TftpHasTimer, TooLarge
  <1> QED
    BY <1>1, <1>2, <1>3, <1>4, <1>5, <1>6

\* collectioncomplete().
LEMMA TransferCompletes ==
    ASSUME TransferIInv, WgetComplete,
           \/ pc = "body" /\ job.kind \in {"wget", "wgetftp", "curl"} /\ (seen = job.total \/ ~job.declared)
           \/ pc = "dropped"
    PROVE  TransferIInv'
  <1> USE JobFacts DEF TransferIInv, TransferShape, StageIsRight, work, WgetComplete, CloseArtifact,
         Hashed, Quit, CanExit
  <1> DEFINE d == Dispatch("download", Hashed)
  <1>a. /\ events = <<>> /\ Failed \in Event /\ Failed.what = "failed"
        /\ d \in Event /\ d.what = "download" /\ d.hashed = Hashed /\ d.data = content
    BY EventFacts
  <1>b. ASSUME job.declared, "over" \notin odd PROVE content = Whole
    <2>1. seen = job.total /\ Blocks = job.total /\ Len(content) = job.total
      BY <1>b, TransfersAssumption DEF ContentIsDue, Blocks
    <2> QED
      BY <2>1, FullIsWhole DEF ContentIsDue
  <1>0. /\ pc' = "end" /\ stacked' = FALSE /\ UNCHANGED <<job, live, seen, content, odd, tftp>>
        /\ file' = (IF content = <<>> THEN "removed" ELSE "stored") /\ fp' = (IF content = <<>> THEN fp ELSE "closed")
        /\ entry' \in {"none", "bare"} \cup (IF content # <<>> THEN {"backed"} ELSE {})
    OBVIOUS
  <1>c. \/ events' = Append(events, Failed) /\ job.dest = "refused" /\ live
        \/ events' = events \o <<d>> \o (IF stacked \/ ~live THEN <<>> ELSE <<Failed>>)
    OBVIOUS
  <1> HIDE DEF d, WgetComplete, CloseArtifact, Quit
  <1>d. \/ events' = <<Failed>> /\ job.dest = "refused" /\ live
        \/ events' = <<d>> /\ (stacked \/ ~live)
        \/ events' = <<d, Failed>> /\ ~stacked /\ live
    <2>1. /\ Append(<<>>, Failed) = <<Failed>> /\ <<>> \o <<d>> \o <<>> = <<d>>
          /\ <<>> \o <<d>> \o <<Failed>> = <<d, Failed>>
      BY <1>a, FewEvents
    <2>2. \/ events' = Append(<<>>, Failed) /\ job.dest = "refused" /\ live
          \/ events' = <<>> \o <<d>> \o <<>> /\ (stacked \/ ~live)
          \/ events' = <<>> \o <<d>> \o <<Failed>> /\ ~stacked /\ live
      BY <1>a, <1>c
    <2> QED
      BY <2>1, <2>2
  <1>e. <<Failed>> \in Seq(Event) /\ <<d>> \in Seq(Event) /\ <<d, Failed>> \in Seq(Event)
    BY <1>a, FewEvents
  <1>1. TransferShape'
    BY <1>0
  <1>2. ContentIsDue'
    BY <1>0 DEF ContentIsDue, Blocks
  <1>3. StageIsRight'
    BY <1>0 DEF Http, Ftp
  <1>4. TftpInStep'
    BY <1>0 DEF TftpInStep, Blocks
  <1>5. Reported'
    <2>1. content' = content /\ Whole' = Whole /\ job' = job /\ odd' = odd
      BY <1>0 DEF Whole, Blocks
    <2>2. events' \in Seq(Event)
      BY <1>d, <1>e
    <2>3. ASSUME NEW i \in DOMAIN events' PROVE events'[i] \in {d, Failed}
      BY <1>a, <1>d, <2>3, FewEvents
    <2>4. d.hashed => file' = "stored" /\ fp' = "closed"
      BY <1>a, <1>0
    <2>5. "over" \in odd' /\ live' /\ pc' = "end" => \E i \in DOMAIN events' : events'[i].what = "failed"
      <3>1. CASE events' = <<Failed>>
        BY <1>a, <3>1, FewEvents
      <3>2. CASE events' = <<d, Failed>>
        BY <1>a, <3>2, FewEvents
      <3>3. CASE stacked \/ ~live
        BY <1>0, <3>3 DEF StageIsRight
      <3> QED
        BY <1>d, <3>1, <3>2, <3>3
    <2> HIDE DEF Hashed, TransferIInv, TransferShape, StageIsRight
    <2> QED
      BY <1>a, <1>b, <1>0, <2>1, <2>2, <2>3, <2>4, <2>5 DEF Reported
  <1>6. TransfersEnd'
    BY <1>a, <1>0, <1>d, FewEvents DEF TftpInStep, TransfersEnd, OneOutcome,
         ControlReturns, TftpHasTimer, TooLarge
  <1> QED
    BY <1>1, <1>2, <1>3, <1>4, <1>5, <1>6

\* The next chunk of ftpget.
LEMMA TransferFtpgetData ==
    ASSUME TransferIInv, FtpgetData
    PROVE  TransferIInv'
  <1> USE JobFacts DEF TransferIInv, TransferShape, StageIsRight, work, FtpgetData
  <1>s. seen + 1 \in 0 .. job.total
    OBVIOUS
  <1>a. Len(content) = seen
    BY DEF ContentIsDue
  <1>0. /\ content' \in Seq(Nat) /\ Len(content') = Len(content) + 1 /\ \A i \in 1 .. Len(content') : content'[i] = i
        /\ seen' = seen + 1 /\ UNCHANGED <<pc, stacked, odd, file, fp, entry, events, job, live, tftp>>
        /\ pc = "body" /\ job.kind = "ftpget"
    BY <1>a, Grown DEF ContentIsDue
  <1> HIDE DEF FtpgetData
  <1>1. TransferShape'
    <2>1. job'.total = job.total
      BY <1>0
    <2> QED
      BY <1>0, <1>s, <2>1
  <1>2. ContentIsDue'
    BY <1>0, <1>a DEF ContentIsDue, Blocks
  <1>3. StageIsRight'
    BY <1>0 DEF Http, Ftp
  <1>4. TftpInStep'
    BY <1>0 DEF TftpInStep, Blocks
  <1>5. Reported'
    BY <1>0 DEF Reported, Whole, Blocks
  <1>6. TransfersEnd'
    BY <1>0 DEF TftpInStep, TransfersEnd, OneOutcome,
         ControlReturns, TftpHasTimer, TooLarge
  <1> QED
    BY <1>1, <1>2, <1>3, <1>4, <1>5, <1>6

\* _download_success().
LEMMA TransferFtpgetSuccess ==
    ASSUME TransferIInv, FtpgetSuccess
    PROVE  TransferIInv'
  <1> USE JobFacts DEF TransferIInv, TransferShape, StageIsRight, work, FtpgetSuccess, CloseArtifact, Hashed
  <1> DEFINE d == Dispatch("download", Hashed)
  <1>a. /\ events = <<>> /\ Failed \in Event /\ Failed.what = "failed"
        /\ d \in Event /\ d.what = "download" /\ d.hashed = Hashed /\ d.data = content
    BY EventFacts
  <1>b. content = Whole
    <2>1. Blocks = job.total /\ Len(content) = job.total
      BY DEF ContentIsDue
    <2> QED
      BY <2>1, FullIsWhole DEF ContentIsDue
  <1>0. /\ pc = "quit" /\ pc' = "end" /\ UNCHANGED <<job, live, seen, content, tftp>>
        /\ file' = (IF content = <<>> THEN "removed" ELSE "stored") /\ fp' = (IF content = <<>> THEN fp ELSE "closed")
        /\ entry' = (IF content # <<>> /\ job.dest = "ok" THEN "backed" ELSE "none")
        /\ stacked' = (stacked /\ content # <<>> /\ job.dest # "ok")
        /\ odd' = IF stacked' THEN odd \cup {"raised"} ELSE odd
    OBVIOUS
  <1>k. job.kind = "ftpget" /\ (stacked' => job.dest = "refused" /\ content # <<>>)
    OBVIOUS
  <1>c. events' = events \o <<d>> \o (IF content # <<>> THEN <<>> ELSE <<Failed>>)
    OBVIOUS
  <1> HIDE DEF d, FtpgetSuccess, CloseArtifact
  <1>d. \/ events' = <<d>>
        \/ events' = <<d, Failed>> /\ content = <<>>
    <2>1. CASE content = <<>>
      BY <1>a, <1>c, <2>1, FewEvents
    <2>2. CASE content # <<>>
      BY <1>a, <1>c, <2>2, FewEvents
    <2> QED
      BY <2>1, <2>2
  <1>e. <<Failed>> \in Seq(Event) /\ <<d>> \in Seq(Event) /\ <<d, Failed>> \in Seq(Event)
    BY <1>a, FewEvents
  <1>1. TransferShape'
    BY <1>0
  <1>2. ContentIsDue'
    BY <1>0 DEF ContentIsDue, Blocks
  <1>3. StageIsRight'
    BY <1>0 DEF Http, Ftp
  <1>4. TftpInStep'
    BY <1>0 DEF TftpInStep, Blocks
  <1>5. Reported'
    <2>1. content' = content /\ Whole' = Whole /\ job' = job /\ odd \subseteq odd'
      BY <1>0 DEF Whole, Blocks
    <2>2. events' \in Seq(Event)
      BY <1>d, <1>e
    <2>3. ASSUME NEW i \in DOMAIN events' PROVE events'[i] \in {d, Failed}
      BY <1>a, <1>d, <2>3, FewEvents
    <2>4. d.hashed => file' = "stored" /\ fp' = "closed"
      BY <1>a, <1>0
    <2>5. "over" \notin odd'
      BY <1>0, <1>k DEF ContentIsDue
    <2> HIDE DEF Hashed
    <2> QED
      BY <1>a, <1>b, <1>0, <2>1, <2>2, <2>3, <2>4, <2>5 DEF Reported
  <1>6. TransfersEnd'
    <2>1. OneOutcome'
      BY <1>a, <1>0, <1>d, FewEvents DEF OneOutcome, TooLarge
    <2>2. TftpHasTimer'
      BY <1>0 DEF TftpInStep, TransfersEnd, TftpHasTimer
    <2>3. ASSUME stacked' PROVE Len(events') = 1 /\ \A e \in ToSet(events') : e.what = "download" /\ e.hashed
      <3>1. events' = <<d>> /\ d.hashed
        BY <1>a, <1>d, <1>k, <2>3
      <3> HIDE DEF TransferIInv, TransferShape, StageIsRight, Hashed
      <3> QED
        BY <1>a, <3>1, FewEvents DEF ToSet
    <2>4. ControlReturns'
      BY <1>0, <1>k, <2>3 DEF ControlReturns
    <2> QED
      BY <2>1, <2>2, <2>4 DEF TransfersEnd
  <1> QED
    BY <1>1, <1>2, <1>3, <1>4, <1>5, <1>6

\* _download_error().
LEMMA TransferFtpgetError ==
    ASSUME TransferIInv, FtpgetError
    PROVE  TransferIInv'
  <1> USE JobFacts DEF TransferIInv, TransferShape, StageIsRight, work, FtpgetError, CloseArtifact, Quit
  <1>a. events = <<>> /\ Failed \in Event /\ Failed.what = "failed" /\ Append(events, Failed) = <<Failed>>
    <2>1. events = <<>> /\ Failed \in Event /\ Failed.what = "failed"
      BY EventFacts
    <2> QED
      BY <2>1, FewEvents
  <1>0. events' = <<Failed>> /\ Failed \in Event /\ Failed.what = "failed" /\ Len(<<Failed>>) = 1
    BY <1>a, FewEvents
  <1>1. TransferShape'
    OBVIOUS
  <1>2. ContentIsDue'
    BY DEF ContentIsDue, Blocks
  <1>3. StageIsRight'
    BY <1>0 DEF Http, Ftp
  <1>4. TftpInStep'
    BY DEF TftpInStep, Blocks
  <1>5. Reported'
    BY <1>0 DEF Reported, Whole, Blocks
  <1>6. TransfersEnd'
    BY <1>0 DEF TftpInStep, TransfersEnd, OneOutcome,
         ControlReturns, TftpHasTimer, TooLarge
  <1> QED
    BY <1>1, <1>2, <1>3, <1>4, <1>5, <1>6

\* The server sends a block.
LEMMA TransferServerSends ==
    ASSUME TransferIInv, ServerSends
    PROVE  TransferIInv'
  <1> USE JobFacts DEF TransferIInv, TransferShape, StageIsRight, work, ServerSends
  <1>0. /\ tftp' = [tftp EXCEPT !.sent = tftp.sent + 1] /\ tftp.port = "open"
        /\ tftp.sent + 1 <= Blocks /\ tftp.sent <= tftp.acked
        /\ UNCHANGED <<job, pc, stacked, live, seen, content, file, fp, entry, events, odd>>
    BY DEF TftpState
  <1> HIDE DEF ServerSends
  <1>t. /\ tftp' \in TftpState /\ tftp'.sent = tftp.sent + 1 /\ tftp'.port = "open"
        /\ tftp'.retries = tftp.retries /\ tftp'.block = tftp.block /\ tftp'.acked = tftp.acked
        /\ tftp'.timer = tftp.timer /\ tftp'.stray = tftp.stray
    BY <1>0, SentFields
  <1>1. TransferShape'
    BY <1>0, <1>t
  <1>2. ContentIsDue'
    BY <1>0, <1>t DEF ContentIsDue, Blocks
  <1>3. StageIsRight'
    BY <1>0, <1>t DEF Http, Ftp
  <1>4. TftpInStep'
    <2>1. /\ tftp.sent \in Nat /\ tftp.acked \in Nat /\ Blocks' = Blocks
          /\ content' = content /\ job' = job /\ pc' = pc /\ fp' = fp
      BY <1>0 DEF TftpState, Blocks
    <2>2. TftpInStep
      OBVIOUS
    <2> HIDE DEF TransferIInv
    <2> QED
      BY <1>0, <1>t, <2>1, <2>2 DEF TftpInStep
  <1>5. Reported'
    BY <1>0, <1>t DEF Reported, Whole, Blocks
  <1>6. TransfersEnd'
    BY <1>0, <1>t DEF TftpInStep, TransfersEnd, OneOutcome,
         ControlReturns, TftpHasTimer, TooLarge
  <1> QED
    BY <1>1, <1>2, <1>3, <1>4, <1>5, <1>6

\* What a datagram leaves of the client and of the artifact: t and c.
Stays(t, c) ==
    /\ t \in TftpState /\ t.retries < MaxRetries + 1 /\ t.block < BlockWrap
    /\ t.port = tftp.port \/ (tftp.port = "draining" /\ t.port = "closed" /\ ~t.timer)
    /\ tftp.port = "open" =>
         /\ t.timer \/ t.stray
         /\ t.sent = tftp.sent /\ t.acked >= tftp.acked /\ t.retries < MaxRetries
         /\ BlockWrap > 1 => t.acked <= Len(c)
         /\ t.block = Len(c)
    /\ \/ c = content
       \/ tftp.port = "open" /\ c = Append(content, Len(content) + 1) /\ Len(content) + 1 <= Blocks

\* A datagram that does not end the transfer.
LEMMA TransferStays ==
    ASSUME TransferIInv, NEW t, NEW c, Listening, TftpStays(t, c), Stays(t, c)
    PROVE  TransferIInv'
  <1> USE JobFacts DEF TransferIInv, TransferShape, StageIsRight, work, Listening
  <1>0. /\ tftp' = t /\ content' = c /\ UNCHANGED <<job, pc, stacked, live, seen, file, fp, entry, events, odd>>
    BY DEF TftpStays
  <1>k. job.kind = "tftp" /\ tftp.port \in {"open", "draining"} /\ t.port \in {"open", "draining", "closed"}
        /\ (t.port = "open" <=> tftp.port = "open") /\ pc \in {"body", "end"}
    BY DEF TftpInStep, Stays
  <1>t. t \in TftpState /\ t.retries < MaxRetries + 1 /\ t.block < BlockWrap
    BY DEF Stays
  <1>c. /\ c \in Seq(Nat) /\ (\A i \in 1 .. Len(c) : c[i] = i)
        /\ (c = content \/ (Len(c) = Len(content) + 1 /\ Len(c) <= Blocks /\ pc = "body" /\ tftp.port = "open"))
    BY <1>0, <1>k, Grown DEF Stays, ContentIsDue, TftpInStep
  <1>1. TransferShape'
    BY <1>0, <1>t, <1>c
  <1>2. ContentIsDue'
    BY <1>0, <1>k, <1>c DEF ContentIsDue, Blocks
  <1>3. StageIsRight'
    BY <1>0, <1>k, <1>c DEF Http, Ftp
  <1>4. TftpInStep'
    <2>1. Blocks' = Blocks /\ Blocks \in Nat /\ Len(content) \in Nat /\ Len(c) \in Nat
      BY <1>0, <1>c DEF Blocks
    <2>2. tftp.sent \in Nat /\ tftp.acked \in Nat /\ t.sent \in Nat /\ t.acked \in Nat
      BY <1>t DEF TftpState
    <2>a. t.port = "open" => /\ t.block = Len(c) /\ t.retries < MaxRetries /\ t.sent = tftp.sent
                             /\ t.acked >= tftp.acked /\ (BlockWrap > 1 => t.acked <= Len(c))
      BY <1>k DEF Stays
    <2>b. t.port = "open" => tftp.sent <= tftp.acked + 1 /\ tftp.sent <= Blocks
      BY <1>k DEF TftpInStep
    <2>3. t.port = "open" => /\ t.block = Len(c) /\ t.retries < MaxRetries /\ t.sent <= t.acked + 1 /\ t.sent <= Blocks
                             /\ BlockWrap > 1 => t.acked <= Len(c)
      BY <2>1, <2>2, <2>a, <2>b
    <2>4. /\ t.port # "off" /\ (t.port = "open" <=> pc = "body")
          /\ (t.port \in {"draining", "closed"} => fp = "closed")
          /\ pc \notin {"start", "resolve"}
      BY <1>k DEF TftpInStep
    <2>5. tftp' = t /\ content' = c /\ job' = job /\ pc' = pc /\ fp' = fp
      BY <1>0
    <2> HIDE DEF TransferIInv
    <2> QED
      BY <1>k, <2>1, <2>3, <2>4, <2>5 DEF TftpInStep
  <1>5. Reported'
    BY <1>0, <1>k, <1>c DEF Reported, Whole, Blocks
  <1>6. TransfersEnd'
    <2>1. t.port = "open" /\ ~t.stray => t.timer
      BY <1>k DEF Stays
    <2>2. t.port \in {"off", "closed"} => ~t.timer
      BY <1>k DEF Stays
    <2> QED
      BY <1>0, <1>k, <2>1, <2>2 DEF TftpInStep, TransfersEnd, OneOutcome,
         ControlReturns, TftpHasTimer, TooLarge
  <1> QED
    BY <1>1, <1>2, <1>3, <1>4, <1>5, <1>6

\* What handleDATA, handleERROR, a stray packet and stopProtocol leave.
LEMMA StaysCases ==
    ASSUME TransferIInv
    PROVE  /\ Listening => Stays(Heard, content) \/ tftp.port = "open"
           /\ Listening => Stays([Heard EXCEPT !.stray = TRUE], content)
           /\ tftp.port = "draining" => Stays([tftp EXCEPT !.port = "closed", !.timer = FALSE], content)
           /\ tftp.port = "open" /\ tftp.timer /\ tftp.retries + 1 < MaxRetries =>
                Stays([tftp EXCEPT !.retries = @ + 1], content)
  <1>0. MaxRetries \in Nat /\ MaxRetries > 0 /\ BlockWrap \in Nat /\ tftp \in TftpState
    BY TransfersAssumption DEF TransferIInv, TransferShape
  <1> DEFINE a == [Heard EXCEPT !.stray = TRUE]
             b == [tftp EXCEPT !.port = "closed", !.timer = FALSE]
             e == [tftp EXCEPT !.retries = tftp.retries + 1]
  <1>h. /\ Heard \in TftpState /\ Heard.retries = 0 /\ Heard.block = tftp.block /\ Heard.port = tftp.port
        /\ Heard.sent = tftp.sent /\ Heard.acked = tftp.acked /\ ~Heard.timer /\ ~Heard.stray
    BY <1>0 DEF Heard, TftpState
  <1>a. /\ a \in TftpState /\ a.retries = 0 /\ a.block = tftp.block /\ a.port = tftp.port
        /\ a.sent = tftp.sent /\ a.acked = tftp.acked /\ a.stray
    BY <1>0 DEF Heard, TftpState
  <1>b. /\ b \in TftpState /\ b.retries = tftp.retries /\ b.block = tftp.block /\ b.port = "closed" /\ ~b.timer
    BY <1>0 DEF TftpState
  <1>e. /\ e \in TftpState /\ e.retries = tftp.retries + 1 /\ e.block = tftp.block /\ e.port = tftp.port
        /\ e.sent = tftp.sent /\ e.acked = tftp.acked /\ e.timer = tftp.timer
    BY <1>0 DEF TftpState
  <1>s. /\ tftp.retries \in Nat /\ tftp.acked \in Nat /\ tftp.retries < MaxRetries + 1 /\ tftp.block < BlockWrap
        /\ tftp.port = "open" => tftp.block = Len(content) /\ (BlockWrap > 1 => tftp.acked <= Len(content))
    BY <1>0 DEF TransferIInv, TransferShape, TftpInStep, TftpState
  <1> HIDE DEF a, b, e
  <1>1. Listening => Stays(Heard, content) \/ tftp.port = "open"
    BY <1>0, <1>h, <1>s DEF Stays, Listening
  <1>2. Stays(a, content)
    BY <1>0, <1>a, <1>s DEF Stays
  <1>3. tftp.port = "draining" => Stays(b, content)
    BY <1>0, <1>b, <1>s DEF Stays
  <1>4. tftp.port = "open" /\ tftp.timer /\ tftp.retries + 1 < MaxRetries => Stays(e, content)
    BY <1>0, <1>e, <1>s DEF Stays
  <1> QED
    BY <1>1, <1>2, <1>3, <1>4 DEF a, b, e

\* What a transfer that is over leaves of the client and of the artifact: t and c.
Ends(ok, t, c) ==
    /\ ok \in BOOLEAN /\ t \in TftpState /\ t.retries < MaxRetries + 1 /\ t.block < BlockWrap
    /\ c = content \/ (c = Append(content, Len(content) + 1) /\ Len(content) + 1 <= Blocks)
    /\ ok => Len(c) = Blocks

\* The deferred of a TFTP transfer fires.
LEMMA TransferOutcome ==
    ASSUME TransferIInv, NEW ok, NEW t, NEW c, tftp.port = "open", TftpOutcome(ok, t, c), Ends(ok, t, c)
    PROVE  TransferIInv'
  <1> USE JobFacts DEF TransferIInv, TransferShape, StageIsRight, work, Ends
  <1> DEFINE d == [Dispatch("download", FALSE) EXCEPT !.data = c]
             f == [Failed EXCEPT !.data = c]
             u == [t EXCEPT !.timer = FALSE, !.port = "draining"]
  <1>k. job.kind = "tftp" /\ pc = "body" /\ fp = "open" /\ file = "temp" /\ events = <<>> /\ entry = "none"
    BY DEF TftpInStep
  <1>c. /\ c \in Seq(Nat) /\ (\A i \in 1 .. Len(c) : c[i] = i) /\ Len(c) <= Blocks
        /\ ok => c = Whole
    <2>1. /\ c \in Seq(Nat) /\ (\A i \in 1 .. Len(c) : c[i] = i) /\ Len(c) <= Blocks
      BY <1>k, Grown DEF ContentIsDue
    <2> QED
      BY <2>1 DEF Whole
  <1>0. /\ tftp' = u /\ content' = c /\ fp' = "closed" /\ pc' = "end" /\ stacked' = FALSE
        /\ entry' = (IF ok /\ live /\ job.dest = "ok" THEN "bare" ELSE entry)
        /\ UNCHANGED <<job, live, seen, file, odd>>
    BY DEF TftpOutcome, Quit
  <1>u. u \in TftpState /\ u.port = "draining" /\ ~u.timer /\ u.retries = t.retries /\ u.block = t.block
    BY DEF TftpState
  <1>a. /\ d \in Event /\ d.what = "download" /\ ~d.hashed /\ d.data = c
        /\ f \in Event /\ f.what = "failed"
    BY <1>c, EventFacts DEF Event, Failed, Dispatch
  <1>d. events' = events \o (IF ok THEN <<d>> ELSE <<>>) \o (IF ok /\ live /\ job.dest = "ok" THEN <<>> ELSE <<f>>)
    BY DEF TftpOutcome
  <1> HIDE DEF d, f, u
  <1>e. \/ ok /\ events' = <<d>>
        \/ ~ok /\ events' = <<f>>
        \/ ok /\ events' = <<d, f>> /\ ~(live /\ job.dest = "ok")
    <2>1. CASE ok /\ live /\ job.dest = "ok"
      BY <1>a, <1>d, <1>k, <2>1, FewEvents
    <2>2. CASE ok /\ ~(live /\ job.dest = "ok")
      <3>1. events' = <<>> \o <<d>> \o <<f>>
        BY <1>d, <1>k, <2>2
      <3>2. <<>> \o <<d>> \o <<f>> = <<d, f>>
        BY <1>a, FewEvents
      <3> QED
        BY <2>2, <3>1, <3>2
    <2>3. CASE ~ok
      BY <1>a, <1>d, <1>k, <2>3, FewEvents
    <2> QED
      BY <2>1, <2>2, <2>3
  <1>v. <<d>> \in Seq(Event) /\ <<f>> \in Seq(Event) /\ <<d, f>> \in Seq(Event)
    BY <1>a, FewEvents
  <1>1. TransferShape'
    BY <1>0, <1>u, <1>c
  <1>2. ContentIsDue'
    BY <1>0, <1>k, <1>c DEF ContentIsDue, Blocks
  <1>3. StageIsRight'
    BY <1>0, <1>k DEF Http, Ftp
  <1>4. TftpInStep'
    BY <1>0, <1>k, <1>u DEF TftpInStep, Blocks
  <1>5. Reported'
    <2>1. content' = c /\ Whole' = Whole /\ job' = job /\ odd' = odd
      BY <1>0 DEF Whole, Blocks
    <2>2. events' \in Seq(Event)
      BY <1>e, <1>v
    <2>3. ASSUME NEW i \in DOMAIN events' PROVE events'[i] = f \/ (ok /\ events'[i] = d)
      <3>1. CASE events' = <<d>> /\ ok
        BY <1>a, <2>3, <3>1, FewEvents
      <3>2. CASE events' = <<f>>
        BY <1>a, <2>3, <3>2, FewEvents
      <3>3. CASE events' = <<d, f>> /\ ok
        BY <1>a, <2>3, <3>3, FewEvents
      <3> QED
        BY <1>e, <3>1, <3>2, <3>3
    <2> QED
      BY <1>a, <1>c, <1>0, <1>k, <2>1, <2>2, <2>3 DEF Reported, ContentIsDue
  <1>6. TransfersEnd'
    BY <1>0, <1>k, <1>u, <1>e, <1>a, FewEvents DEF TftpInStep, TransfersEnd, OneOutcome,
         ControlReturns, TftpHasTimer, TooLarge
  <1> QED
    BY <1>1, <1>2, <1>3, <1>4, <1>5, <1>6

\* A block number on the wire.
LEMMA WireFacts ==
    ASSUME NEW n \in Nat, NEW w \in Nat, w > 0
    PROVE  /\ n % w \in Nat /\ n % w < w /\ n % w <= n
           /\ n < w => n % w = n
           /\ n = w => n % w = 0
  OBVIOUS

\* The next block, and no other, is the one after the last in order.
LEMMA BlockInOrder ==
    ASSUME TransferIInv, tftp.port = "open", NEW n \in 1 .. tftp.sent
    PROVE  /\ n % BlockWrap = tftp.block + 1 => n = Len(content) + 1 /\ n <= Blocks /\ BlockWrap > 1
           /\ n % BlockWrap = tftp.block /\ BlockWrap > 1 => n <= Len(content)
  <1>t. job \in Jobs /\ tftp \in TftpState /\ content \in Seq(Nat)
    BY DEF TransferIInv, TransferShape
  <1>w. BlockWrap \in Nat /\ BlockWrap > 0
    BY TransfersAssumption
  <1>1. /\ BlockWrap \in Nat /\ BlockWrap > 0 /\ tftp.sent \in Nat /\ tftp.acked \in Nat /\ Len(content) \in Nat
        /\ Blocks \in Nat
    BY <1>t, <1>w, JobFacts DEF TftpState
  <1>2. /\ tftp.block = Len(content) /\ tftp.sent <= tftp.acked + 1 /\ tftp.sent <= Blocks
        /\ BlockWrap > 1 => tftp.acked <= Len(content)
    BY DEF TransferIInv, TftpInStep
  <1> DEFINE m == n % BlockWrap
  <1>3. m \in Nat /\ m < BlockWrap /\ m <= n /\ (n < BlockWrap => m = n) /\ (n = BlockWrap => m = 0)
    BY <1>1, WireFacts
  <1> HIDE DEF m
  <1>4. m = tftp.block + 1 => n = Len(content) + 1 /\ n <= Blocks /\ BlockWrap > 1
    BY <1>1, <1>2, <1>3
  <1>5. m = tftp.block /\ BlockWrap > 1 => n <= Len(content)
    BY <1>1, <1>2, <1>3
  <1> QED
    BY <1>4, <1>5 DEF m

\* handleDATA: the next block is written and acknowledged, the last one again is
\* acknowledged again, and any other is ignored.
LEMMA TransferData ==
    ASSUME TransferIInv, Listening, NEW n \in 1 .. tftp.sent, HandleData(n)
    PROVE  TransferIInv'
  <1> DEFINE wire == n % BlockWrap
             next == [Heard EXCEPT !.block = wire]
             grown == SendAck(next, n)
             again == SendAck(Heard, n)
             c == Append(content, n)
  <1>t. /\ job \in Jobs /\ tftp \in TftpState /\ content \in Seq(Nat) /\ tftp.block < BlockWrap
        /\ tftp.retries < MaxRetries + 1 /\ \A i \in 1 .. Len(content) : content[i] = i
    BY DEF TransferIInv, TransferShape, ContentIsDue
  <1>w. BlockWrap \in Nat /\ BlockWrap > 0 /\ MaxRetries \in Nat /\ MaxRetries > 0
    BY TransfersAssumption
  <1>n. /\ n \in Nat /\ tftp.sent \in Nat /\ tftp.acked \in Nat /\ tftp.block \in Nat
        /\ Blocks \in Nat /\ Len(content) \in Nat
    BY <1>t, JobFacts DEF TftpState
  <1>m. wire \in Nat /\ wire < BlockWrap
    BY <1>n, <1>w, WireFacts
  <1>o. /\ tftp.port = "open" <=> fp = "open"
        /\ tftp.port = "open" =>
             /\ wire = tftp.block + 1 => n = Len(content) + 1 /\ n <= Blocks /\ BlockWrap > 1
             /\ wire = tftp.block /\ BlockWrap > 1 => n <= Len(content)
             /\ tftp.block = Len(content) /\ (BlockWrap > 1 => tftp.acked <= Len(content))
    <2>1. tftp.port = "open" <=> fp = "open"
      BY JobFacts, <1>t DEF TransferIInv, TftpInStep, StageIsRight, Listening
    <2>2. tftp.port = "open" => tftp.block = Len(content) /\ (BlockWrap > 1 => tftp.acked <= Len(content))
      BY DEF TransferIInv, TftpInStep
    <2> QED
      BY <2>1, <2>2, BlockInOrder
  <1> HIDE DEF wire
  <1>h. /\ Heard \in TftpState /\ Heard.retries = 0 /\ Heard.block = tftp.block /\ Heard.port = tftp.port
        /\ Heard.sent = tftp.sent /\ Heard.acked = tftp.acked
    BY <1>t DEF Heard, TftpState
  <1>x. /\ next \in TftpState /\ next.retries = 0 /\ next.block = wire /\ next.port = tftp.port
        /\ next.sent = tftp.sent /\ next.acked = tftp.acked
    BY <1>h, <1>m DEF TftpState
  <1> HIDE DEF next
  <1>g. /\ grown \in TftpState /\ grown.retries = 0 /\ grown.block = wire /\ grown.port = tftp.port /\ grown.timer
        /\ grown.sent = tftp.sent /\ grown.acked = IF n > tftp.acked THEN n ELSE tftp.acked
    BY <1>x, <1>n DEF SendAck, TftpState
  <1>a. /\ again \in TftpState /\ again.retries = 0 /\ again.block = tftp.block /\ again.port = tftp.port /\ again.timer
        /\ again.sent = tftp.sent /\ again.acked = IF n > tftp.acked THEN n ELSE tftp.acked
    BY <1>h, <1>n DEF SendAck, TftpState
  <1> HIDE DEF grown, again
  <1>c. wire = tftp.block + 1 /\ fp = "open" =>
          /\ c = Append(content, Len(content) + 1) /\ Len(content) + 1 <= Blocks
          /\ Len(c) = Len(content) + 1 /\ Len(c) = n
    BY <1>o, <1>t, Grown
  <1> HIDE DEF c
  <1>1. CASE wire = tftp.block + 1 /\ fp = "closed" /\ TftpStays(next, content)
    <2>1. Stays(next, content)
      BY <1>1, <1>x, <1>w, <1>m, <1>o DEF Stays
    <2> QED
      BY <1>1, <2>1, TransferStays
  <1>2. CASE wire = tftp.block + 1 /\ fp = "open" /\ n = Blocks /\ TftpOutcome(TRUE, grown, c)
    <2>1. Ends(TRUE, grown, c)
      BY <1>2, <1>g, <1>w, <1>m, <1>o, <1>c DEF Ends
    <2> QED
      BY <1>2, <1>o, <2>1, TransferOutcome
  <1>3. CASE wire = tftp.block + 1 /\ fp = "open" /\ TftpStays(grown, c)
    <2>1. BlockWrap > 1 => grown.acked <= Len(c)
      BY <1>3, <1>g, <1>o, <1>c, <1>n
    <2>2. grown.acked >= tftp.acked
      BY <1>g, <1>n
    <2>3. Stays(grown, c)
      BY <1>3, <1>g, <1>w, <1>m, <1>o, <1>c, <2>1, <2>2 DEF Stays
    <2> QED
      BY <1>3, <2>3, TransferStays
  <1>4. CASE wire = tftp.block /\ TftpStays(again, content)
    <2>1. tftp.port = "open" /\ BlockWrap > 1 => again.acked <= Len(content)
      BY <1>4, <1>a, <1>o, <1>n
    <2>2. again.acked >= tftp.acked
      BY <1>a, <1>n
    <2>3. Stays(again, content)
      BY <1>4, <1>a, <1>w, <1>t, <1>o, <2>1, <2>2 DEF Stays
    <2> QED
      BY <1>4, <2>3, TransferStays
  <1>5. CASE TftpStays([Heard EXCEPT !.stray = TRUE], content)
    BY <1>5, StaysCases, TransferStays
  <1>f. fp \in {"open", "closed"}
    BY DEF TransferIInv, TransferShape
  <1> QED
    BY <1>1, <1>2, <1>3, <1>4, <1>5, <1>f DEF HandleData, wire, next, grown, again, c

\* A datagram, the timeout, and the end of the port.
LEMMA TransferTftp ==
    ASSUME TransferIInv, TftpData \/ TftpErrorPacket \/ TftpStrayPacket \/ HandleTimeout \/ StopProtocol
    PROVE  TransferIInv'
  <1>t. tftp \in TftpState /\ tftp.block < BlockWrap /\ tftp.retries < MaxRetries + 1
    BY DEF TransferIInv, TransferShape
  <1>w. MaxRetries \in Nat /\ MaxRetries > 0
    BY TransfersAssumption
  <1>1. CASE TftpData
    BY <1>1, TransferData DEF TftpData
  <1>2. CASE TftpErrorPacket /\ tftp.port = "open"
    <2>1. Heard \in TftpState /\ Heard.retries = 0 /\ Heard.block = tftp.block
      BY <1>t DEF Heard, TftpState
    <2>2. Ends(FALSE, Heard, content)
      BY <1>t, <1>w, <2>1 DEF Ends
    <2> QED
      BY <1>2, <2>2, TransferOutcome DEF TftpErrorPacket
  <1>3. CASE TftpErrorPacket /\ tftp.port # "open"
    BY <1>3, StaysCases, TransferStays DEF TftpErrorPacket
  <1>4. CASE TftpStrayPacket
    BY <1>4, StaysCases, TransferStays DEF TftpStrayPacket
  <1>5. CASE HandleTimeout
    <2> DEFINE again == [tftp EXCEPT !.retries = @ + 1]
    <2>1. /\ again \in TftpState /\ again.retries = tftp.retries + 1 /\ again.block = tftp.block /\ tftp.retries \in Nat
      BY <1>t DEF TftpState
    <2>2. tftp.port = "open" /\ tftp.timer /\ tftp.retries < MaxRetries
      BY <1>5 DEF HandleTimeout, TransferIInv, TftpInStep
    <2>3. CASE tftp.retries + 1 >= MaxRetries
      <3>1. TftpOutcome(FALSE, again, content)
        BY <1>5, <2>3 DEF HandleTimeout
      <3> HIDE DEF again
      <3>2. Ends(FALSE, again, content)
        BY <1>t, <1>w, <2>1, <2>2 DEF Ends
      <3> QED
        BY <2>2, <3>1, <3>2, TransferOutcome
    <2>4. CASE ~(tftp.retries + 1 >= MaxRetries)
      <3>1. TftpStays(again, content)
        BY <1>5, <2>4 DEF HandleTimeout
      <3>2. Stays(again, content)
        BY <1>w, <2>1, <2>2, <2>4, StaysCases
      <3> HIDE DEF again
      <3> QED
        BY <2>2, <3>1, <3>2, TransferStays DEF Listening
    <2> QED
      BY <2>3, <2>4
  <1>6. CASE StopProtocol
    BY <1>6, StaysCases, TransferStays DEF StopProtocol, Listening
  <1> QED
    BY <1>1, <1>2, <1>3, <1>4, <1>5, <1>6

\* The answer to the request.
LEMMA TransferResponse ==
    ASSUME TransferIInv, Response
    PROVE  TransferIInv'
  <1>1. pc = "connect" /\ pc # "end"
    BY DEF Response
  <1>2. CASE Abandon /\ (job.kind = "curlhead" \/ (TooLarge /\ job.kind \in {"wget", "curl"}))
    BY <1>1, <1>2, TransferQuits DEF Abandon
  <1>3. CASE /\ pc' = "body" /\ UNCHANGED <<job, stacked, live, work, odd, tftp>>
             /\ job.kind \in {"wget", "curl"}
    <2>1. GoesOn("body")
      BY <1>1, <1>3 DEF GoesOn
    <2> QED
      BY <1>3, <2>1, TransferGoesOn
  <1>4. CASE CurlError /\ job.kind = "curl"
    BY <1>1, <1>4, TransferErrs DEF CurlError
  <1>5. CASE WgetSuccess
    BY <1>2, <1>3, <1>5 DEF WgetSuccess
  <1>6. CASE CurlSuccess
    BY <1>2, <1>3, <1>4, <1>6 DEF CurlSuccess
  <1> QED
    BY <1>5, <1>6 DEF Response

\* A line of an upload.
LEMMA TransferScpLine ==
    ASSUME TransferIInv, ScpLine
    PROVE  TransferIInv'
  <1> USE JobFacts DEF TransferIInv, TransferShape, StageIsRight, work, ScpLine
  <1>s. seen + 1 \in 0 .. job.total
    OBVIOUS
  <1>0. /\ seen' = seen + 1 /\ pc = "body" /\ job.kind = "scp"
        /\ UNCHANGED <<job, pc, stacked, live, content, file, fp, entry, events, odd, tftp>>
    OBVIOUS
  <1> HIDE DEF ScpLine
  <1>1. TransferShape'
    <2>1. job'.total = job.total
      BY <1>0
    <2> QED
      BY <1>0, <1>s, <2>1
  <1>2. ContentIsDue'
    BY <1>0 DEF ContentIsDue, Blocks
  <1>3. StageIsRight'
    BY <1>0 DEF Http, Ftp
  <1>4. TftpInStep'
    BY <1>0 DEF TftpInStep, Blocks
  <1>5. Reported'
    BY <1>0 DEF Reported, Whole, Blocks
  <1>6. TransfersEnd'
    BY <1>0 DEF TftpInStep, TransfersEnd, OneOutcome,
         ControlReturns, TftpHasTimer, TooLarge
  <1> QED
    BY <1>1, <1>2, <1>3, <1>4, <1>5, <1>6

\* The port stops listening.
LEMMA DrainedFields ==
    ASSUME tftp \in TftpState, NEW t, t = [tftp EXCEPT !.timer = FALSE, !.port = "draining"]
    PROVE  t \in TftpState /\ t.port = "draining" /\ ~t.timer /\ t.retries = tftp.retries /\ t.block = tftp.block
  BY DEF TftpState

\* CTRL-C takes the command off the stack, and ends a TFTP transfer.
LEMMA TransferCtrlC ==
    ASSUME TransferIInv, CtrlC
    PROVE  TransferIInv'
  <1> USE JobFacts DEF TransferIInv, TransferShape, StageIsRight, work, CtrlC
  <1>0. /\ stacked /\ live /\ pc # "start" /\ stacked' = FALSE /\ odd' = odd \cup {"ctrlc"}
        /\ UNCHANGED <<job, live, seen, content, file, entry, events>>
    OBVIOUS
  <1>t. \/ UNCHANGED <<pc, tftp>> /\ ~(job.kind = "tftp" /\ tftp.port = "open")
           /\ fp' = (IF job.kind = "tftp" THEN "closed" ELSE fp)
        \/ /\ job.kind = "tftp" /\ tftp.port = "open" /\ fp' = "closed" /\ pc' = "end"
           /\ tftp' \in TftpState /\ tftp'.port = "draining" /\ ~tftp'.timer
           /\ tftp'.retries = tftp.retries /\ tftp'.block = tftp.block
    <2>1. CASE ~(job.kind = "tftp" /\ tftp.port = "open")
      BY <2>1
    <2>2. CASE job.kind = "tftp" /\ tftp.port = "open"
      <3>1. fp' = "closed" /\ pc' = "end" /\ tftp' = [tftp EXCEPT !.timer = FALSE, !.port = "draining"]
        BY <2>2
      <3> QED
        BY <2>2, <3>1, DrainedFields
    <2> QED
      BY <2>1, <2>2
  <1> HIDE DEF CtrlC
  <1>1. TransferShape'
    BY <1>0, <1>t
  <1>2. ContentIsDue'
    BY <1>0, <1>t DEF ContentIsDue, Blocks
  <1>3. StageIsRight'
    <2>1. CASE UNCHANGED pc /\ fp' = (IF job.kind = "tftp" THEN "closed" ELSE fp) /\ tftp.port # "open"
      <3>1. job.kind = "tftp" => pc # "body"
        BY <2>1 DEF TftpInStep
      <3> QED
        BY <1>0, <2>1, <3>1 DEF Http, Ftp
    <2>2. CASE pc' = "end"
      BY <1>0, <1>t, <2>2 DEF Http, Ftp
    <2> QED
      BY <1>t, <2>1, <2>2 DEF TftpInStep
  <1>4. TftpInStep'
    BY <1>0, <1>t DEF TftpInStep, Blocks
  <1>5. Reported'
    BY <1>0, <1>t DEF Reported, ContentIsDue, Whole, Blocks
  <1>6. TransfersEnd'
    BY <1>0, <1>t DEF TftpInStep, TransfersEnd, OneOutcome,
         ControlReturns, TftpHasTimer, TooLarge
  <1> QED
    BY <1>1, <1>2, <1>3, <1>4, <1>5, <1>6

\* The session is lost.
LEMMA TransferLost ==
    ASSUME TransferIInv, Lost
    PROVE  TransferIInv'
  <1> USE JobFacts DEF TransferIInv, TransferShape, StageIsRight, work, Lost
  <1>1. TransferShape'
    OBVIOUS
  <1>2. ContentIsDue'
    BY DEF ContentIsDue, Blocks
  <1>3. StageIsRight'
    BY DEF Http, Ftp
  <1>4. TftpInStep'
    BY DEF TftpInStep, Blocks
  <1>5. Reported'
    BY DEF Reported, Whole, Blocks
  <1>6. TransfersEnd'
    BY DEF TftpInStep, TransfersEnd, OneOutcome,
         ControlReturns, TftpHasTimer, TooLarge
  <1> QED
    BY <1>1, <1>2, <1>3, <1>4, <1>5, <1>6

\* No step of the system breaks the invariant of the transfer.
LEMMA TransferNext ==
    ASSUME TransferIInv, [TransfersNext]_transfersVars
    PROVE  TransferIInv'
  <1>k. /\ job.kind \in {"wget", "wgetftp", "curl", "curlhead", "ftpget", "tftp", "nc", "scp"}
        /\ pc \in {"resolve", "connect", "body", "cwd", "quit"} => pc # "end"
        /\ pc = "resolve" => file = "none"
        /\ pc = "dropped" => job.kind = "wgetftp"
        /\ job.kind = "scp" => file = "none"
    BY JobFacts DEF TransferIInv, TransferShape, StageIsRight
  <1>1. CASE (\E h \in Hosts : OtherSession(h)) \/ Tick
    BY <1>1, TransferIdle DEF OtherSession, Tick
  <1>2. CASE Start
    BY <1>2, TransferStarts
  <1>3. CASE Blocked \/ ScpEof
    BY <1>k, <1>3, TransferQuits DEF Blocked, ScpEof, Abandon
  <1>4. CASE Allowed
    BY <1>4, TransferAllowed
  <1>5. CASE Response
    BY <1>5, TransferResponse
  <1>6. CASE ConnectFails \/ BodyCut \/ FtpFails
    <2>1. /\ WgetError /\ pc \in {"connect", "cwd", "body", "dropped"}
          /\ job.kind \in {"wget", "wgetftp", "curl", "curlhead"}
      BY <1>6 DEF ConnectFails, BodyCut, FtpFails, HttpError, CurlError, Http
    <2> QED
      BY <2>1, TransferErrs
  <1>7. CASE Collect
    <2>1. pc = "body" /\ job.kind \in {"wget", "wgetftp", "curl"} /\ seen < job.total /\ WgetCollect
      BY <1>7 DEF Collect, CurlCollect
    <2> QED
      BY <2>1, TransferCollects, TransferOverflows
  <1>8. CASE BodyEnds \/ FtpAfterRetrieve
    <2>1. /\ WgetComplete
          /\ \/ pc = "body" /\ job.kind \in {"wget", "wgetftp", "curl"} /\ (seen = job.total \/ ~job.declared)
             \/ pc = "dropped"
      BY <1>8 DEF BodyEnds, FtpAfterRetrieve, CurlComplete
    <2> QED
      BY <2>1, TransferCompletes
  <1>9. CASE FtpConnected \/ FtpRetrieve \/ FtpgetQuit
    <2>1. \E p : GoesOn(p) /\ pc' = p /\ UNCHANGED <<job, stacked, live, work, odd, tftp>>
      BY <1>9 DEF FtpConnected, FtpRetrieve, FtpgetQuit, GoesOn
    <2> QED
      BY <2>1, TransferGoesOn
  <1>10. CASE FtpgetData \/ FtpgetSuccess \/ FtpgetError
    BY <1>10, TransferFtpgetData, TransferFtpgetSuccess, TransferFtpgetError
  <1>11. CASE ServerSends \/ TftpData \/ TftpErrorPacket \/ TftpStrayPacket \/ HandleTimeout \/ StopProtocol
    BY <1>11, TransferServerSends, TransferTftp
  <1>12. CASE ScpLine \/ CtrlC \/ Lost
    BY <1>12, TransferScpLine, TransferCtrlC, TransferLost
  <1>13. CASE UNCHANGED transfersVars
    BY <1>13, TransferIdle DEF transfersVars
  <1> QED
    BY <1>1, <1>2, <1>3, <1>4, <1>5, <1>6, <1>7, <1>8, <1>9, <1>10, <1>11, <1>12, <1>13 DEF TransfersNext

\* A transfer starts with nothing.
LEMMA TransferFirst ==
    ASSUME TransfersInit
    PROVE  TransferIInv
  <1> USE JobFacts, TransfersAssumption DEF TransfersInit
  <1>0. MaxRetries > 0 /\ BlockWrap > 0 /\ Blocks \in Nat
    OBVIOUS
  <1>1. TransferShape
    BY <1>0 DEF TransferShape, TftpState
  <1>2. ContentIsDue
    BY <1>0 DEF ContentIsDue
  <1>3. StageIsRight
    BY DEF StageIsRight
  <1>4. TftpInStep
    BY DEF TftpInStep
  <1>5. Reported
    BY DEF Reported, Event
  <1>6. TransfersEnd
    BY DEF TransfersEnd, OneOutcome, ControlReturns, TftpHasTimer
  <1> QED
    BY <1>1, <1>2, <1>3, <1>4, <1>5, <1>6 DEF TransferIInv

-----------------------------------------------------------------------------
(***************************************************************************)
(* The inductive invariant of the rate limiter.                            *)
(***************************************************************************)
\* The requests granted to a host since u, and the stamps since u.
GrantedSince(g, h, u) == {i \in DOMAIN g : g[i][1] = h /\ g[i][2] >= u}
StampsSince(ts, u) == {j \in DOMAIN ts : ts[j] >= u}

\* Stamps are in order and not ahead of the clock.
InOrder(ts, clock) ==
    /\ ts \in Seq(0 .. clock)
    /\ \A i, j \in DOMAIN ts : i <= j => ts[i] <= ts[j]

\* For every moment of the window there are as many stamps since as requests granted.
Counts(ts, h, clock, g) ==
    \A u \in 0 .. clock : u + Window > clock =>
        Cardinality(StampsSince(ts, u)) = Cardinality(GrantedSince(g, h, u))

RateShape ==
    /\ limiter = [tracker |-> limiter.tracker, cleanup |-> limiter.cleanup, clock |-> limiter.clock,
                  others |-> limiter.others]
    /\ limiter.clock \in Nat /\ limiter.cleanup \in Nat
    /\ DOMAIN limiter.tracker \subseteq Hosts
    /\ \A h \in DOMAIN limiter.tracker : InOrder(limiter.tracker[h], limiter.clock)
    /\ granted \in Seq(Hosts \X (0 .. limiter.clock))

TrackerKeeps == \A h \in Hosts \ evicted : Counts(Stamps(limiter.tracker, h), h, limiter.clock, granted)

RateIInv == RateShape /\ TrackerKeeps /\ WindowBound

-----------------------------------------------------------------------------
(***************************************************************************)
(* The stamps of a key.                                                    *)
(***************************************************************************)
\* A set of naturals that is not empty has a least element.
LEMMA FirstOf ==
    ASSUME NEW S \in SUBSET Nat, S # {}
    PROVE  \E m \in S : \A x \in S : m <= x
  <1>1. \E m \in S : \A x \in S : <<x, m>> \notin OpToRel(<, Nat)
    BY NatLessThanWellFounded, WFMin
  <1>2. PICK m \in S : \A x \in S : ~(x < m)
    BY <1>1 DEF OpToRel
  <1> QED
    BY <1>2

\* A set of indices that has all those before its own is an interval from 1.
LEMMA FirstOnes ==
    ASSUME NEW n \in Nat, NEW S \in SUBSET (1 .. n), \A i \in S, j \in 1 .. n : j <= i => j \in S
    PROVE  Cardinality(S) \in 0 .. n /\ S = 1 .. Cardinality(S)
  <1>1. PICK m \in 0 .. n : S = 1 .. m
    <2>1. CASE S = 1 .. n
      BY <2>1
    <2>2. CASE S # 1 .. n
      <3>1. (1 .. n) \ S # {} /\ (1 .. n) \ S \in SUBSET Nat
        <4>1. \A i \in S : i \in 1 .. n
          OBVIOUS
        <4>2. \E i \in 1 .. n : i \notin S
          BY <2>2, <4>1
        <4> QED
          BY <4>2
      <3>2. PICK k \in (1 .. n) \ S : \A x \in (1 .. n) \ S : k <= x
        BY <3>1, FirstOf
      <3>3. S = 1 .. (k - 1)
        <4>1. ASSUME NEW i \in S PROVE i \in 1 .. (k - 1)
          BY <3>2
        <4>2. ASSUME NEW i \in 1 .. (k - 1) PROVE i \in S
          BY <3>2
        <4> QED
          BY <4>1, <4>2
      <3> QED
        BY <3>2, <3>3
    <2> QED
      BY <2>1, <2>2
  <1>2. Cardinality(1 .. m) = m
    <2>1. 1 \in Int /\ m \in Int
      OBVIOUS
    <2>2. Cardinality(1 .. m) = IF 1 > m THEN 0 ELSE m - 1 + 1
      BY <2>1, FS_Interval
    <2> QED
      BY <2>2
  <1> QED
    BY <1>1, <1>2

\* A finite sequence has finitely many indices of any kind.
LEMMA SomeIndices ==
    ASSUME NEW s, NEW T, s \in Seq(T), NEW S \in SUBSET DOMAIN s
    PROVE  IsFiniteSet(S) /\ Cardinality(S) \in Nat /\ Cardinality(S) <= Len(s)
  <1>1. Len(s) \in Nat /\ DOMAIN s = 1 .. Len(s)
    OBVIOUS
  <1>2. IsFiniteSet(1 .. Len(s)) /\ Cardinality(1 .. Len(s)) = Len(s)
    <2>1. 1 \in Int /\ Len(s) \in Int
      BY <1>1
    <2>2. /\ IsFiniteSet(1 .. Len(s))
          /\ Cardinality(1 .. Len(s)) = IF 1 > Len(s) THEN 0 ELSE Len(s) - 1 + 1
      BY <2>1, FS_Interval
    <2> QED
      BY <1>1, <2>2
  <1>3. IsFiniteSet(S) /\ Cardinality(S) <= Cardinality(1 .. Len(s))
    BY <1>1, <1>2, FS_Subset
  <1>4. Cardinality(S) \in Nat
    BY <1>3, FS_CardinalityType
  <1> QED
    BY <1>2, <1>3, <1>4

\* What is outside the window are the first stamps.
LEMMA RecentFacts ==
    ASSUME limiter.clock \in Nat, NEW ts, InOrder(ts, limiter.clock)
    PROVE  \E m \in 0 .. Len(ts) :
             /\ Recent(ts) \in Seq(0 .. limiter.clock) /\ Len(Recent(ts)) = Len(ts) - m
             /\ \A i \in 1 .. (Len(ts) - m) : Recent(ts)[i] = ts[m + i]
             /\ \A i \in 1 .. Len(ts) : i <= m <=> limiter.clock - ts[i] >= Window
  <1> DEFINE S == {i \in DOMAIN ts : limiter.clock - ts[i] >= Window}
             m == Cardinality(S)
  <1>1. /\ ts \in Seq(0 .. limiter.clock) /\ Len(ts) \in Nat /\ DOMAIN ts = 1 .. Len(ts)
        /\ \A i, j \in 1 .. Len(ts) : i <= j => ts[i] <= ts[j]
        /\ \A i \in 1 .. Len(ts) : ts[i] \in 0 .. limiter.clock
    BY DEF InOrder
  <1>w. Window \in Nat
    BY TransfersAssumption
  <1>2. S \in SUBSET (1 .. Len(ts)) /\ \A i \in S, j \in 1 .. Len(ts) : j <= i => j \in S
    <2>1. S \in SUBSET (1 .. Len(ts))
      BY <1>1
    <2>2. ASSUME NEW i \in S, NEW j \in 1 .. Len(ts), j <= i PROVE j \in S
      <3>1. i \in 1 .. Len(ts) /\ limiter.clock - ts[i] >= Window /\ ts[j] <= ts[i]
        BY <1>1, <2>2
      <3>2. ts[i] \in Nat /\ ts[j] \in Nat
        BY <1>1, <3>1
      <3>3. limiter.clock - ts[j] >= Window
        BY <1>w, <3>1, <3>2
      <3> QED
        BY <1>1, <3>3
    <2> QED
      BY <2>1, <2>2
  <1>3. m \in 0 .. Len(ts) /\ S = 1 .. m
    BY <1>1, <1>2, FirstOnes
  <1>4. \A i \in 1 .. Len(ts) : i <= m <=> limiter.clock - ts[i] >= Window
    BY <1>1, <1>3
  <1>5. Recent(ts) = SubSeq(ts, 1 + m, Len(ts))
    BY DEF Recent
  <1> HIDE DEF m
  <1>6. /\ SubSeq(ts, 1 + m, Len(ts)) \in Seq(0 .. limiter.clock)
        /\ Len(SubSeq(ts, 1 + m, Len(ts))) = IF 1 + m <= Len(ts) THEN Len(ts) - (1 + m) + 1 ELSE 0
        /\ \A i \in 1 .. (Len(ts) - (1 + m) + 1) : SubSeq(ts, 1 + m, Len(ts))[i] = ts[1 + m + i - 1]
    <2>1. 1 + m \in Int /\ Len(ts) \in Int /\ \A i \in (1 + m) .. Len(ts) : ts[i] \in 0 .. limiter.clock
      BY <1>1, <1>3
    <2> QED
      BY <2>1, SubSeqProperties
  <1>7. Len(Recent(ts)) = Len(ts) - m
    <2>1. m \in Nat /\ m <= Len(ts) /\ Len(ts) \in Nat
      BY <1>1, <1>3
    <2>2. CASE 1 + m <= Len(ts)
      <3>1. Len(Recent(ts)) = Len(ts) - (1 + m) + 1
        BY <1>5, <1>6, <2>2
      <3> QED
        BY <1>1, <2>1, <3>1
    <2>3. CASE ~(1 + m <= Len(ts))
      <3>1. Len(Recent(ts)) = 0
        BY <1>5, <1>6, <2>3
      <3>2. Len(ts) - m = 0
        BY <2>1, <2>3
      <3> QED
        BY <3>1, <3>2
    <2> QED
      BY <2>2, <2>3
  <1>8. ASSUME NEW i \in 1 .. (Len(ts) - m) PROVE Recent(ts)[i] = ts[m + i]
    <2>1. i \in 1 .. (Len(ts) - (1 + m) + 1) /\ 1 + m + i - 1 = m + i
      BY <1>1, <1>3
    <2> QED
      BY <1>5, <1>6, <2>1
  <1> QED
    BY <1>3, <1>4, <1>5, <1>6, <1>7, <1>8

\* Leaving out what is outside the window keeps the order and the counts.
LEMMA RecentKeeps ==
    ASSUME limiter.clock \in Nat, NEW ts, InOrder(ts, limiter.clock)
    PROVE  /\ InOrder(Recent(ts), limiter.clock)
           /\ \A h, g : Counts(ts, h, limiter.clock, g) => Counts(Recent(ts), h, limiter.clock, g)
  <1> DEFINE r == Recent(ts)
  <1>1. PICK m \in 0 .. Len(ts) :
             /\ r \in Seq(0 .. limiter.clock) /\ Len(r) = Len(ts) - m
             /\ \A i \in 1 .. (Len(ts) - m) : r[i] = ts[m + i]
             /\ \A i \in 1 .. Len(ts) : i <= m <=> limiter.clock - ts[i] >= Window
    BY RecentFacts
  <1>2. /\ ts \in Seq(0 .. limiter.clock) /\ Len(ts) \in Nat /\ DOMAIN ts = 1 .. Len(ts)
        /\ \A i, j \in 1 .. Len(ts) : i <= j => ts[i] <= ts[j]
        /\ \A i \in 1 .. Len(ts) : ts[i] \in 0 .. limiter.clock
    BY DEF InOrder
  <1> HIDE DEF r
  <1>3. DOMAIN r = 1 .. (Len(ts) - m)
    BY <1>1
  <1>4. InOrder(r, limiter.clock)
    <2>1. ASSUME NEW i \in DOMAIN r, NEW j \in DOMAIN r, i <= j PROVE r[i] <= r[j]
      <3>0. i \in 1 .. (Len(ts) - m) /\ j \in 1 .. (Len(ts) - m)
        BY <1>3
      <3>1. /\ r[i] = ts[m + i] /\ r[j] = ts[m + j] /\ m + i \in 1 .. Len(ts) /\ m + j \in 1 .. Len(ts) /\ m + i <= m + j
        <4>1. r[i] = ts[m + i] /\ r[j] = ts[m + j]
          BY <1>1, <3>0
        <4>2. m + i \in 1 .. Len(ts) /\ m + j \in 1 .. Len(ts) /\ m + i <= m + j
          <5>1. Len(ts) \in Nat /\ m \in Nat /\ m <= Len(ts) /\ i \in Nat /\ j \in Nat
            BY <1>2, <3>0
          <5> QED
            BY <2>1, <3>0, <5>1
        <4> QED
          BY <4>1, <4>2
      <3> QED
        BY <1>2, <3>1
    <2> QED
      BY <1>1, <2>1 DEF InOrder
  <1>w. Window \in Nat
    BY TransfersAssumption
  <1>5. ASSUME NEW u \in 0 .. limiter.clock, u + Window > limiter.clock
        PROVE  Cardinality(StampsSince(r, u)) = Cardinality(StampsSince(ts, u))
    <2> DEFINE A == StampsSince(r, u)
               B == StampsSince(ts, u)
               f == [j \in A |-> m + j]
    <2>1. \A j \in A : j \in 1 .. (Len(ts) - m) /\ m + j \in 1 .. Len(ts) /\ r[j] = ts[m + j] /\ ts[m + j] >= u
      <3> SUFFICES ASSUME NEW j \in A
                   PROVE  j \in 1 .. (Len(ts) - m) /\ m + j \in 1 .. Len(ts) /\ r[j] = ts[m + j] /\ ts[m + j] >= u
        OBVIOUS
      <3>1. j \in 1 .. (Len(ts) - m) /\ r[j] >= u
        BY <1>3 DEF StampsSince
      <3>2. r[j] = ts[m + j]
        BY <1>1, <3>1
      <3>3. m + j \in 1 .. Len(ts)
        BY <1>2, <3>1
      <3> QED
        BY <3>1, <3>2, <3>3
    <2>2. \A j \in A : m + j \in B
      BY <1>2, <2>1 DEF StampsSince
    <2>3. ASSUME NEW i \in B PROVE i - m \in A /\ m + (i - m) = i
      <3>1. i \in 1 .. Len(ts) /\ ts[i] >= u /\ ts[i] \in 0 .. limiter.clock
        BY <1>2 DEF StampsSince
      <3>2. ~(limiter.clock - ts[i] >= Window)
        BY <1>5, <1>w, <3>1
      <3>3. ~(i <= m)
        BY <1>1, <3>1, <3>2
      <3>4. i - m \in 1 .. (Len(ts) - m) /\ m + (i - m) = i
        BY <1>1, <1>2, <3>1, <3>3
      <3>5. r[i - m] = ts[i]
        BY <1>1, <3>4
      <3> QED
        BY <1>3, <3>1, <3>4, <3>5 DEF StampsSince
    <2>4. IsFiniteSet(A)
      BY <1>1, SomeIndices DEF StampsSince
    <2>5. A \subseteq Nat
      BY <2>1
    <2> HIDE DEF A, B
    <2>6. f \in [A -> B] /\ (\A a, b \in A : f[a] = f[b] => a = b) /\ \A i \in B : \E j \in A : f[j] = i
      <3>1. \A a, b \in A : f[a] = f[b] => a = b
        BY <1>1, <2>5
      <3> QED
        BY <2>2, <2>3, <3>1
    <2>7. f \in Bijection(A, B)
      BY <2>6 DEF Bijection, Injection, IsInjective, Surjection
    <2> QED
      BY <2>4, <2>7, FS_Bijection DEF ExistsBijection, A, B
  <1>6. ASSUME NEW h, NEW g, Counts(ts, h, limiter.clock, g) PROVE Counts(r, h, limiter.clock, g)
    BY <1>5, <1>6 DEF Counts
  <1> QED
    BY <1>4, <1>6 DEF r

\* No stamps at all.
LEMMA NoStamps ==
    ASSUME limiter.clock \in Nat
    PROVE  InOrder(<<>>, limiter.clock) /\ Recent(<<>>) = <<>>
  <1>1. InOrder(<<>>, limiter.clock)
    BY DEF InOrder
  <1>2. PICK m \in 0 .. Len(<<>>) : Recent(<<>>) \in Seq(0 .. limiter.clock) /\ Len(Recent(<<>>)) = Len(<<>>) - m
    BY <1>1, RecentFacts
  <1>3. Len(Recent(<<>>)) = 0
    BY <1>2
  <1> QED
    BY <1>1, <1>2, <1>3

\* The cleanup of all keys keeps the order and the counts.
LEMMA CleanupKeeps ==
    ASSUME RateShape, NEW k
    PROVE  /\ DOMAIN CleanupAll \subseteq DOMAIN limiter.tracker
           /\ InOrder(Stamps(CleanupAll, k), limiter.clock)
           /\ \A g : Counts(Stamps(limiter.tracker, k), k, limiter.clock, g) =>
                       Counts(Stamps(CleanupAll, k), k, limiter.clock, g)
  <1> DEFINE ts == Stamps(limiter.tracker, k)
  <1>0. limiter.clock \in Nat
    BY DEF RateShape
  <1>1. InOrder(ts, limiter.clock)
    BY <1>0, NoStamps DEF RateShape, Stamps
  <1>2. DOMAIN CleanupAll \subseteq DOMAIN limiter.tracker
    BY DEF CleanupAll
  <1>3. Stamps(CleanupAll, k) = ts \/ Stamps(CleanupAll, k) = Recent(ts)
    BY <1>0, NoStamps DEF CleanupAll, Stamps
  <1> HIDE DEF ts
  <1>4. /\ InOrder(Recent(ts), limiter.clock)
        /\ \A g : Counts(ts, k, limiter.clock, g) => Counts(Recent(ts), k, limiter.clock, g)
    BY <1>0, <1>1, RecentKeeps
  <1> QED
    BY <1>1, <1>2, <1>3, <1>4 DEF ts

\* So does the refresh of the key that is looked at.
LEMMA RefreshKeeps ==
    ASSUME RateShape, NEW h, NEW k
    PROVE  /\ DOMAIN Refreshed(h) \subseteq DOMAIN limiter.tracker \cup {h}
           /\ InOrder(Stamps(Refreshed(h), k), limiter.clock)
           /\ \A g : Counts(Stamps(limiter.tracker, k), k, limiter.clock, g) =>
                       Counts(Stamps(Refreshed(h), k), k, limiter.clock, g)
  <1> DEFINE ts == Stamps(CleanupAll, k)
  <1>0. limiter.clock \in Nat
    BY DEF RateShape
  <1>1. /\ DOMAIN CleanupAll \subseteq DOMAIN limiter.tracker /\ InOrder(ts, limiter.clock)
        /\ \A g : Counts(Stamps(limiter.tracker, k), k, limiter.clock, g) => Counts(ts, k, limiter.clock, g)
    BY CleanupKeeps
  <1>2. Stamps(Refreshed(h), k) = ts \/ Stamps(Refreshed(h), k) = Recent(ts)
    BY DEF Refreshed, Stamps
  <1>3. DOMAIN Refreshed(h) = DOMAIN CleanupAll \cup {h}
    BY DEF Refreshed
  <1> HIDE DEF ts
  <1>4. /\ InOrder(Recent(ts), limiter.clock)
        /\ \A g : Counts(ts, k, limiter.clock, g) => Counts(Recent(ts), k, limiter.clock, g)
    BY <1>0, <1>1, RecentKeeps
  <1> QED
    BY <1>1, <1>2, <1>3, <1>4

-----------------------------------------------------------------------------
(***************************************************************************)
(* The steps of the rate limiter.                                          *)
(***************************************************************************)
\* What check() sets of the limiter.
Checked(tr, cl, o) == [limiter EXCEPT !.tracker = tr, !.cleanup = cl, !.others = o]

\* The fields of a limiter that check() leaves.
LEMMA LimiterFields ==
    ASSUME RateShape, NEW tr, NEW cl, NEW o, NEW l, l = Checked(tr, cl, o)
    PROVE  /\ l.tracker = tr /\ l.cleanup = cl /\ l.clock = limiter.clock
           /\ l = [tracker |-> l.tracker, cleanup |-> l.cleanup, clock |-> l.clock, others |-> l.others]
  <1> DEFINE T == limiter.tracker
             N == limiter.cleanup
             C == limiter.clock
             O == limiter.others
  <1>1. limiter = [tracker |-> T, cleanup |-> N, clock |-> C, others |-> O]
    BY DEF RateShape
  <1> HIDE DEF T, N, C, O
  <1>2. l = [tracker |-> tr, cleanup |-> cl, clock |-> C, others |-> o]
    BY <1>1 DEF Checked
  <1> QED
    BY <1>2 DEF C

\* The fields of a limiter whose clock goes on.
LEMMA ClockFields ==
    ASSUME RateShape, NEW c, NEW l, l = [limiter EXCEPT !.clock = c]
    PROVE  /\ l.tracker = limiter.tracker /\ l.cleanup = limiter.cleanup /\ l.clock = c
           /\ l = [tracker |-> l.tracker, cleanup |-> l.cleanup, clock |-> l.clock, others |-> l.others]
  <1> DEFINE T == limiter.tracker
             N == limiter.cleanup
             C == limiter.clock
             O == limiter.others
  <1>1. limiter = [tracker |-> T, cleanup |-> N, clock |-> C, others |-> O]
    BY DEF RateShape
  <1> HIDE DEF T, N, C, O
  <1>2. l = [tracker |-> T, cleanup |-> N, clock |-> c, others |-> O]
    BY <1>1
  <1> QED
    BY <1>2 DEF T, N

\* One stamp more, the clock's, keeps the order.
LEMMA StampedInOrder ==
    ASSUME NEW c \in Nat, NEW ts, InOrder(ts, c)
    PROVE  InOrder(Append(ts, c), c)
  <1>1. ts \in Seq(0 .. c) /\ c \in 0 .. c
    BY DEF InOrder
  <1>2. /\ Append(ts, c) \in Seq(0 .. c) /\ DOMAIN Append(ts, c) = 1 .. (Len(ts) + 1) /\ Len(ts) \in Nat
        /\ \A i \in 1 .. Len(ts) : Append(ts, c)[i] = ts[i] /\ ts[i] \in 0 .. c
        /\ Append(ts, c)[Len(ts) + 1] = c
    BY <1>1
  <1>3. ASSUME NEW i \in 1 .. (Len(ts) + 1), NEW j \in 1 .. (Len(ts) + 1), i <= j
        PROVE  Append(ts, c)[i] <= Append(ts, c)[j]
    <2>1. CASE j = Len(ts) + 1
      <3>1. i = Len(ts) + 1 \/ i \in 1 .. Len(ts)
        BY <1>2
      <3> QED
        BY <1>2, <2>1, <3>1
    <2>2. CASE j # Len(ts) + 1
      <3>1. i \in 1 .. Len(ts) /\ j \in 1 .. Len(ts)
        BY <1>2, <1>3, <2>2
      <3>2. DOMAIN ts = 1 .. Len(ts)
        BY <1>1
      <3> QED
        BY <1>2, <1>3, <3>1, <3>2 DEF InOrder
    <2> QED
      BY <2>1, <2>2
  <1> HIDE DEF InOrder
  <1> QED
    BY <1>2, <1>3 DEF InOrder

\* One stamp and one granted request more, of the same moment, keep the counts.
LEMMA StampedCounts ==
    ASSUME NEW c \in Nat, NEW ts, InOrder(ts, c), NEW g \in Seq(Hosts \X (0 .. c)), NEW h \in Hosts, NEW k \in Hosts
    PROVE  /\ Counts(ts, h, c, g) => Counts(Append(ts, c), h, c, Append(g, <<h, c>>))
           /\ k # h => \A r : Counts(r, k, c, g) => Counts(r, k, c, Append(g, <<h, c>>))
  <1> DEFINE new == Append(g, <<h, c>>)
             more == Append(ts, c)
  <1>1. /\ ts \in Seq(0 .. c) /\ Len(ts) \in Nat /\ Len(g) \in Nat /\ DOMAIN ts = 1 .. Len(ts) /\ DOMAIN g = 1 .. Len(g)
    BY DEF InOrder
  <1>2. /\ DOMAIN more = 1 .. (Len(ts) + 1) /\ more[Len(ts) + 1] = c /\ \A i \in 1 .. Len(ts) : more[i] = ts[i]
    BY <1>1
  <1>3. /\ DOMAIN new = 1 .. (Len(g) + 1) /\ new[Len(g) + 1] = <<h, c>> /\ \A i \in 1 .. Len(g) : new[i] = g[i]
    BY <1>1
  <1> HIDE DEF new, more
  <1>4. ASSUME NEW u \in 0 .. c
        PROVE  /\ Cardinality(StampsSince(more, u)) = Cardinality(StampsSince(ts, u)) + 1
               /\ Cardinality(GrantedSince(new, h, u)) = Cardinality(GrantedSince(g, h, u)) + 1
    <2>1. StampsSince(more, u) = StampsSince(ts, u) \cup {Len(ts) + 1}
      <3>1. ASSUME NEW i PROVE i \in StampsSince(more, u) <=> i \in StampsSince(ts, u) \cup {Len(ts) + 1}
        <4>1. i \in 1 .. (Len(ts) + 1) <=> i \in 1 .. Len(ts) \/ i = Len(ts) + 1
          BY <1>1
        <4>2. c >= u /\ Len(ts) + 1 \notin 1 .. Len(ts)
          BY <1>1
        <4> QED
          BY <1>1, <1>2, <4>1, <4>2 DEF StampsSince
      <3> QED
        BY <3>1
    <2>2. IsFiniteSet(StampsSince(ts, u)) /\ Len(ts) + 1 \notin StampsSince(ts, u)
      <3>1. StampsSince(ts, u) \in SUBSET DOMAIN ts /\ Len(ts) + 1 \notin DOMAIN ts
        BY <1>1 DEF StampsSince
      <3> QED
        BY <1>1, <3>1, SomeIndices
    <2>3. GrantedSince(new, h, u) = GrantedSince(g, h, u) \cup {Len(g) + 1}
      <3>1. ASSUME NEW i PROVE i \in GrantedSince(new, h, u) <=> i \in GrantedSince(g, h, u) \cup {Len(g) + 1}
        <4>1. i \in 1 .. (Len(g) + 1) <=> i \in 1 .. Len(g) \/ i = Len(g) + 1
          BY <1>1
        <4>2. c >= u /\ Len(g) + 1 \notin 1 .. Len(g) /\ <<h, c>>[1] = h /\ <<h, c>>[2] = c
          BY <1>1
        <4> QED
          BY <1>1, <1>3, <4>1, <4>2 DEF GrantedSince
      <3> QED
        BY <3>1
    <2>4. IsFiniteSet(GrantedSince(g, h, u)) /\ Len(g) + 1 \notin GrantedSince(g, h, u)
      <3>1. GrantedSince(g, h, u) \in SUBSET DOMAIN g /\ Len(g) + 1 \notin DOMAIN g
        BY <1>1 DEF GrantedSince
      <3> QED
        BY <3>1, SomeIndices
    <2> QED
      BY <2>1, <2>2, <2>3, <2>4, FS_AddElement
  <1>5. ASSUME Counts(ts, h, c, g) PROVE Counts(more, h, c, new)
    BY <1>4, <1>5 DEF Counts
  <1>6. ASSUME k # h, NEW r, Counts(r, k, c, g) PROVE Counts(r, k, c, new)
    <2>1. ASSUME NEW u PROVE GrantedSince(new, k, u) = GrantedSince(g, k, u)
      <3>1. ASSUME NEW i PROVE i \in GrantedSince(new, k, u) <=> i \in GrantedSince(g, k, u)
        <4>1. i \in 1 .. (Len(g) + 1) <=> i \in 1 .. Len(g) \/ i = Len(g) + 1
          BY <1>1
        <4>2. <<h, c>>[1] # k
          BY <1>6
        <4> QED
          BY <1>1, <1>3, <4>1, <4>2 DEF GrantedSince
      <3> QED
        BY <3>1
    <2> QED
      BY <1>6, <2>1 DEF Counts
  <1> QED
    BY <1>5, <1>6 DEF new, more

\* The requests granted to a host in the window that ends with t.
Within(g, h, t) == {i \in DOMAIN g : g[i][1] = h /\ g[i][2] <= t /\ t - g[i][2] < Window}

\* A window that a request enters held, before it, no more than there are stamps.
LEMMA StampedWindow ==
    ASSUME NEW c \in Nat, NEW ts, InOrder(ts, c), NEW g \in Seq(Hosts \X (0 .. c)), NEW h \in Hosts, NEW k \in Hosts,
           NEW t \in Nat
    PROVE  \/ Within(Append(g, <<h, c>>), k, t) = Within(g, k, t)
           \/ /\ k = h
              /\ Counts(ts, h, c, g) => Cardinality(Within(Append(g, <<h, c>>), k, t)) <= Len(ts) + 1
  <1> DEFINE new == Append(g, <<h, c>>)
  <1>1. /\ ts \in Seq(0 .. c) /\ Len(ts) \in Nat /\ Len(g) \in Nat /\ DOMAIN g = 1 .. Len(g)
        /\ \A i \in 1 .. Len(g) : g[i] \in Hosts \X (0 .. c)
    BY DEF InOrder
  <1>3. /\ DOMAIN new = 1 .. (Len(g) + 1) /\ new[Len(g) + 1] = <<h, c>> /\ \A i \in 1 .. Len(g) : new[i] = g[i]
    BY <1>1
  <1>4. \A i : i \in 1 .. (Len(g) + 1) <=> i \in 1 .. Len(g) \/ i = Len(g) + 1
    BY <1>1
  <1>5. <<h, c>>[1] = h /\ <<h, c>>[2] = c
    OBVIOUS
  <1>w. Window \in Nat /\ Window > 0
    BY TransfersAssumption
  <1> HIDE DEF new
  <1>6. CASE ~(k = h /\ c <= t /\ t - c < Window)
    <2>1. ASSUME NEW i PROVE i \in Within(new, k, t) <=> i \in Within(g, k, t)
      BY <1>1, <1>3, <1>4, <1>5, <1>6 DEF Within
    <2> QED
      BY <2>1 DEF new
  <1>7. CASE k = h /\ c <= t /\ t - c < Window
    <2>1. ASSUME Counts(ts, h, c, g) PROVE Cardinality(Within(new, h, t)) <= Len(ts) + 1
      <3> DEFINE u == IF c < Window THEN 0 ELSE c - Window + 1
                 old == GrantedSince(g, h, u)
      <3>1. u \in 0 .. c /\ u + Window > c
        BY <1>w
      <3>2. Within(new, h, t) \subseteq old \cup {Len(g) + 1}
        <4>1. SUFFICES ASSUME NEW i \in 1 .. Len(g), i \in Within(new, h, t) PROVE i \in old
          BY <1>3, <1>4 DEF Within
        <4>2. g[i][1] = h /\ g[i][2] \in 0 .. c /\ t - g[i][2] < Window
          BY <1>1, <1>3, <4>1 DEF Within
        <4>3. g[i][2] >= u
          BY <1>7, <1>w, <4>2
        <4> QED
          BY <1>1, <4>2, <4>3 DEF GrantedSince
      <3> HIDE DEF u
      <3>3. Cardinality(old) = Cardinality(StampsSince(ts, u))
        BY <2>1, <3>1 DEF Counts
      <3>4. Cardinality(StampsSince(ts, u)) <= Len(ts) /\ Cardinality(StampsSince(ts, u)) \in Nat
        <4>1. StampsSince(ts, u) \in SUBSET DOMAIN ts
          BY DEF StampsSince
        <4> QED
          BY <1>1, <4>1, SomeIndices
      <3>5. IsFiniteSet(old) /\ Cardinality(old) \in Nat
        <4>1. old \in SUBSET DOMAIN g
          BY DEF GrantedSince
        <4> QED
          BY <4>1, SomeIndices
      <3> HIDE DEF old
      <3>6. /\ IsFiniteSet(old \cup {Len(g) + 1})
            /\ Cardinality(old \cup {Len(g) + 1}) = IF Len(g) + 1 \in old THEN Cardinality(old) ELSE Cardinality(old) + 1
        BY <3>5, FS_AddElement
      <3>7. IsFiniteSet(Within(new, h, t)) /\ Cardinality(Within(new, h, t)) <= Cardinality(old \cup {Len(g) + 1})
        BY <3>2, <3>6, FS_Subset
      <3>8. Cardinality(Within(new, h, t)) \in Nat
        BY <3>7, FS_CardinalityType
      <3> QED
        BY <1>1, <3>3, <3>4, <3>5, <3>6, <3>7, <3>8
    <2> QED
      BY <1>7, <2>1 DEF new
  <1> QED
    BY <1>6, <1>7

\* RateLimiter.check().
LEMMA RateCheck ==
    ASSUME RateIInv, NEW h \in Hosts, NEW ok \in BOOLEAN, Check(h, ok)
    PROVE  RateIInv'
  <1> DEFINE c == limiter.clock
             fresh == Refreshed(h)
  <1>1. RateShape /\ TrackerKeeps /\ c \in Nat /\ granted \in Seq(Hosts \X (0 .. c))
    BY DEF RateIInv, RateShape
  <1>2. PICK R \in RemoveOldestKeys(fresh) :
          LET tr == [k \in DOMAIN fresh \ R |-> fresh[k]]
              ts == Stamps(tr, h)
          IN  /\ ok <=> Len(ts) < MaxRequests
              /\ limiter' = [limiter EXCEPT
                   !.tracker = [k \in DOMAIN tr \cup {h} |->
                                  IF k # h THEN tr[k] ELSE IF ok THEN Append(ts, c) ELSE ts],
                   !.cleanup = IF c - @ > Window THEN c ELSE @,
                   !.others = @ + 1]
              /\ granted' = IF ok THEN Append(granted, <<h, c>>) ELSE granted
              /\ evicted' = evicted \cup {k \in R : fresh[k] # <<>>}
    BY DEF Check
  <1> DEFINE tr == [k \in DOMAIN fresh \ R |-> fresh[k]]
             ts == Stamps(tr, h)
             new == [k \in DOMAIN tr \cup {h} |-> IF k # h THEN tr[k] ELSE IF ok THEN Append(ts, c) ELSE ts]
             cl == IF c - limiter.cleanup > Window THEN c ELSE limiter.cleanup
  <1>3. /\ ok <=> Len(ts) < MaxRequests
        /\ limiter' = [limiter EXCEPT !.tracker = new, !.cleanup = cl, !.others = limiter.others + 1]
        /\ granted' = IF ok THEN Append(granted, <<h, c>>) ELSE granted
        /\ evicted' = evicted \cup {k \in R : fresh[k] # <<>>}
    BY <1>2
  <1>4. \A k : /\ InOrder(Stamps(fresh, k), c)
               /\ Counts(Stamps(limiter.tracker, k), k, c, granted) => Counts(Stamps(fresh, k), k, c, granted)
    BY <1>1, RefreshKeeps
  <1>5. DOMAIN fresh \subseteq Hosts
    <2>1. DOMAIN fresh \subseteq DOMAIN limiter.tracker \cup {h}
      BY <1>1, RefreshKeeps
    <2> QED
      BY <1>1, <2>1 DEF RateShape
  <1>6. /\ limiter'.tracker = new /\ limiter'.cleanup = cl /\ limiter'.clock = c
        /\ limiter' = [tracker |-> limiter'.tracker, cleanup |-> limiter'.cleanup, clock |-> limiter'.clock,
                       others |-> limiter'.others]
    <2> DEFINE o == limiter.others + 1
    <2>1. limiter' = Checked(new, cl, o)
      BY <1>3 DEF Checked
    <2> HIDE DEF new, cl, o
    <2> QED
      BY <1>1, <2>1, LimiterFields
  <1>7. cl \in Nat
    BY <1>1 DEF RateShape
  <1> HIDE DEF cl, c, fresh
  <1>8. ASSUME NEW k
        PROVE  Stamps(tr, k) = Stamps(fresh, k) \/ (Stamps(tr, k) = <<>> /\ (k \in R /\ fresh[k] # <<>>))
    BY DEF Stamps
  <1>9. ASSUME NEW k PROVE InOrder(Stamps(tr, k), c)
    BY <1>1, <1>4, <1>8, NoStamps DEF c
  <1>10. ASSUME NEW k \in Hosts \ evicted' PROVE Counts(Stamps(tr, k), k, c, granted) /\ k \notin evicted
    <2>1. k \notin evicted /\ ~(k \in R /\ fresh[k] # <<>>)
      BY <1>3
    <2>2. Counts(Stamps(limiter.tracker, k), k, c, granted)
      BY <1>1, <2>1 DEF TrackerKeeps, c
    <2> QED
      BY <1>4, <1>8, <2>1, <2>2
  <1>11. DOMAIN new \subseteq Hosts
    BY <1>5
  <1>12. \A k : k # h => Stamps(new, k) = Stamps(tr, k)
    BY DEF Stamps
  <1>13. Stamps(new, h) = IF ok THEN Append(ts, c) ELSE ts
    BY DEF Stamps
  <1>14. \A k \in DOMAIN new : new[k] = Stamps(new, k)
    BY DEF Stamps
  <1>15. ts = Stamps(tr, h)
    OBVIOUS
  <1> HIDE DEF new, tr, ts
  <1>16. InOrder(ts, c) /\ InOrder(Append(ts, c), c)
    BY <1>1, <1>9, <1>15, StampedInOrder
  <1>17. RateShape'
    <2>1. ASSUME NEW k \in DOMAIN new PROVE InOrder(new[k], c)
      BY <1>9, <1>12, <1>13, <1>14, <1>16
    <2>2. granted' \in Seq(Hosts \X (0 .. c))
      <3>1. <<h, c>> \in Hosts \X (0 .. c)
        BY <1>1
      <3> QED
        BY <1>1, <1>3, <3>1
    <2> QED
      BY <1>1, <1>6, <1>7, <1>11, <2>1, <2>2 DEF RateShape
  <1>18. TrackerKeeps'
    <2>1. ASSUME NEW k \in Hosts \ evicted' PROVE Counts(Stamps(new, k), k, c, granted')
      <3>1. Counts(Stamps(tr, k), k, c, granted)
        BY <1>10
      <3>2. CASE ~ok
        BY <1>3, <1>12, <1>13, <1>15, <3>1, <3>2
      <3>3. CASE ok /\ k = h
        BY <1>1, <1>3, <1>13, <1>15, <1>16, <3>1, <3>3, StampedCounts
      <3>4. CASE ok /\ k # h
        BY <1>1, <1>3, <1>12, <1>16, <3>1, <3>4, StampedCounts
      <3> QED
        BY <3>2, <3>3, <3>4
    <2> QED
      BY <1>6, <2>1 DEF TrackerKeeps
  <1>19. WindowBound'
    <2>1. MaxRequests \in Nat
      BY TransfersAssumption
    <2>2. \A k \in Hosts \ evicted, t \in 1 .. MaxTime : Cardinality(Within(granted, k, t)) <= MaxRequests
      BY DEF RateIInv, WindowBound, Within
    <2>3. ASSUME NEW k \in Hosts \ evicted', NEW t \in 1 .. MaxTime
          PROVE  Cardinality(Within(granted', k, t)) <= MaxRequests
      <3>1. k \notin evicted /\ Counts(Stamps(tr, k), k, c, granted)
        BY <1>10
      <3>2. CASE granted' = granted
        BY <2>2, <3>1, <3>2
      <3>3. CASE ok /\ granted' = Append(granted, <<h, c>>)
        <4>1. t \in Nat
          OBVIOUS
        <4>2. \/ Within(granted', k, t) = Within(granted, k, t)
              \/ /\ k = h
                 /\ Counts(ts, h, c, granted) => Cardinality(Within(granted', k, t)) <= Len(ts) + 1
          <5> DEFINE W == Within(Append(granted, <<h, c>>), k, t)
          <5>1. \/ W = Within(granted, k, t)
                \/ k = h /\ (Counts(ts, h, c, granted) => Cardinality(W) <= Len(ts) + 1)
            BY <1>1, <1>16, <4>1, StampedWindow
          <5> QED
            BY <3>3, <5>1
        <4>3. CASE Within(granted', k, t) = Within(granted, k, t)
          BY <2>2, <3>1, <4>3
        <4>4. CASE k = h /\ Cardinality(Within(granted', k, t)) <= Len(ts) + 1
          <5>1. Len(ts) < MaxRequests
            BY <1>3, <3>3
          <5>2. Len(ts) \in Nat /\ Cardinality(Within(granted', k, t)) \in Nat
            <6>1. ts \in Seq(0 .. c)
              BY <1>16 DEF InOrder
            <6>2. granted' \in Seq(Hosts \X (0 .. c))
              BY <1>1, <3>3
            <6>3. Within(granted', k, t) \in SUBSET DOMAIN granted'
              BY DEF Within
            <6> QED
              BY <6>1, <6>2, <6>3, SomeIndices
          <5> QED
            BY <2>1, <4>4, <5>1, <5>2
        <4> QED
          BY <1>15, <3>1, <4>2, <4>3, <4>4
      <3> QED
        BY <1>3, <3>2, <3>3
    <2> QED
      BY <2>3 DEF WindowBound, Within
  <1> QED
    BY <1>17, <1>18, <1>19 DEF RateIInv

\* The clock goes on, and stamps leave the window.
LEMMA RateTick ==
    ASSUME RateIInv, Tick
    PROVE  RateIInv'
  <1>1. RateShape /\ limiter.clock \in Nat /\ granted \in Seq(Hosts \X (0 .. limiter.clock))
    BY DEF RateIInv, RateShape
  <1>2. limiter' = [limiter EXCEPT !.clock = limiter.clock + 1] /\ granted' = granted /\ evicted' = evicted
    BY DEF Tick
  <1>3. /\ limiter'.tracker = limiter.tracker /\ limiter'.cleanup = limiter.cleanup /\ limiter'.clock = limiter.clock + 1
        /\ limiter' = [tracker |-> limiter'.tracker, cleanup |-> limiter'.cleanup, clock |-> limiter'.clock,
                       others |-> limiter'.others]
    BY <1>1, <1>2, ClockFields
  <1> DEFINE c == limiter.clock
  <1>4. c \in Nat /\ 0 .. c \subseteq 0 .. (c + 1)
    BY <1>1
  <1>5. ASSUME NEW ts, InOrder(ts, c) PROVE InOrder(ts, c + 1)
    <2>1. ts \in Seq(0 .. c)
      BY <1>5 DEF InOrder
    <2>2. ts \in Seq(0 .. (c + 1))
      BY <1>4, <2>1
    <2> QED
      BY <1>5, <2>2 DEF InOrder
  <1>6. RateShape'
    <2>1. granted \in Seq(Hosts \X (0 .. (c + 1)))
      BY <1>1, <1>4
    <2>2. \A h \in DOMAIN limiter.tracker : InOrder(limiter.tracker[h], c + 1)
      BY <1>1, <1>5 DEF RateShape
    <2> QED
      BY <1>1, <1>2, <1>3, <1>4, <2>1, <2>2 DEF RateShape
  <1>w. Window \in Nat
    BY TransfersAssumption
  <1>7. ASSUME NEW h, NEW ts, InOrder(ts, c), Counts(ts, h, c, granted) PROVE Counts(ts, h, c + 1, granted)
    <2> SUFFICES ASSUME NEW u \in 0 .. (c + 1), u + Window > c + 1
                 PROVE  Cardinality(StampsSince(ts, u)) = Cardinality(GrantedSince(granted, h, u))
      BY DEF Counts
    <2>1. CASE u \in 0 .. c
      <3>1. u + Window > c
        BY <1>4, <1>w, <2>1
      <3> QED
        BY <1>7, <2>1, <3>1 DEF Counts
    <2>2. CASE u = c + 1
      <3>1. StampsSince(ts, u) = {}
        BY <1>4, <1>7, <2>2 DEF StampsSince, InOrder
      <3>2. GrantedSince(granted, h, u) = {}
        <4>1. \A i \in DOMAIN granted : granted[i][2] \in 0 .. c
          BY <1>1
        <4> QED
          BY <1>4, <2>2, <4>1 DEF GrantedSince
      <3> QED
        BY <3>1, <3>2
    <2> QED
      BY <1>4, <2>1, <2>2
  <1>8. TrackerKeeps'
    <2>1. ASSUME NEW h \in Hosts \ evicted PROVE Counts(Stamps(limiter.tracker, h), h, c + 1, granted)
      <3>1. InOrder(Stamps(limiter.tracker, h), c)
        BY <1>1, NoStamps DEF RateShape, Stamps
      <3>2. Counts(Stamps(limiter.tracker, h), h, c, granted)
        BY DEF RateIInv, TrackerKeeps
      <3> QED
        BY <1>7, <3>1, <3>2
    <2> QED
      BY <1>2, <1>3, <2>1 DEF TrackerKeeps
  <1>9. WindowBound'
    BY <1>2 DEF RateIInv, WindowBound
  <1> QED
    BY <1>6, <1>8, <1>9 DEF RateIInv

\* A step that leaves the limiter alone.
LEMMA RateIdle ==
    ASSUME RateIInv, UNCHANGED rate
    PROVE  RateIInv'
  <1>1. limiter' = limiter /\ granted' = granted /\ evicted' = evicted
    BY DEF rate
  <1>2. RateShape' /\ TrackerKeeps'
    BY <1>1 DEF RateIInv, RateShape, TrackerKeeps
  <1>3. WindowBound'
    BY <1>1 DEF RateIInv, WindowBound
  <1> QED
    BY <1>2, <1>3 DEF RateIInv

\* No step of the system breaks the invariant of the limiter.
LEMMA RateNext ==
    ASSUME RateIInv, job \in Jobs, [TransfersNext]_transfersVars
    PROVE  RateIInv'
  <1>0. job.host \in Hosts
    BY DEF Jobs
  <1>1. CASE \E h \in Hosts : OtherSession(h)
    BY <1>1, RateCheck DEF OtherSession
  <1>2. CASE Tick
    BY <1>2, RateTick
  <1>3. CASE Start
    <2>1. UNCHANGED rate \/ \E ok \in BOOLEAN : Check(job.host, ok)
      BY <1>3 DEF Start, WgetStart, CurlStart, NcStart, FtpgetStart, TftpStart, ScpStart, Abandon, Raises, Limited
    <2> QED
      BY <1>0, <2>1, RateCheck, RateIdle
  <1>4. CASE Blocked \/ Allowed \/ Response \/ ConnectFails \/ Collect \/ BodyEnds \/ BodyCut
    <2>1. UNCHANGED rate
      BY <1>4 DEF Blocked, Allowed, Response, ConnectFails, Collect, BodyEnds, BodyCut, Abandon, WgetBegin, FtpBegin,
         CurlBegin, FtpgetBegin, TftpBegin, NcRun, WgetSuccess, CurlSuccess, HttpError, CurlError, WgetError,
         CurlCollect, WgetCollect, CurlComplete, WgetComplete
    <2> QED
      BY <2>1, RateIdle
  <1>5. CASE \/ FtpConnected \/ FtpRetrieve \/ FtpFails \/ FtpAfterRetrieve
             \/ FtpgetData \/ FtpgetQuit \/ FtpgetSuccess \/ FtpgetError
    <2>1. UNCHANGED rate
      BY <1>5 DEF FtpConnected, FtpRetrieve, FtpFails, FtpAfterRetrieve, FtpgetData, FtpgetQuit, FtpgetSuccess,
         FtpgetError, WgetError, WgetComplete
    <2> QED
      BY <2>1, RateIdle
  <1>6. CASE ServerSends \/ TftpData \/ TftpErrorPacket \/ TftpStrayPacket \/ HandleTimeout \/ StopProtocol
    <2>1. UNCHANGED rate
      BY <1>6 DEF ServerSends, TftpData, TftpErrorPacket, TftpStrayPacket, HandleTimeout, StopProtocol, HandleData,
         TftpOutcome, TftpStays
    <2> QED
      BY <2>1, RateIdle
  <1>7. CASE ScpLine \/ ScpEof \/ CtrlC \/ Lost \/ UNCHANGED transfersVars
    <2>1. UNCHANGED rate
      BY <1>7 DEF ScpLine, ScpEof, CtrlC, Lost, Abandon, transfersVars
    <2> QED
      BY <2>1, RateIdle
  <1> QED
    BY <1>1, <1>2, <1>3, <1>4, <1>5, <1>6, <1>7 DEF TransfersNext

\* The limiter starts with nothing.
LEMMA RateFirst ==
    ASSUME TransfersInit
    PROVE  RateIInv
  <1>1. /\ limiter = [tracker |-> <<>>, cleanup |-> 1, clock |-> 1, others |-> 0]
        /\ granted = <<>> /\ evicted = {}
    BY DEF TransfersInit
  <1>2. limiter.tracker = <<>> /\ DOMAIN limiter.tracker = {} /\ limiter.clock = 1 /\ DOMAIN granted = {}
    BY <1>1
  <1>3. RateShape
    BY <1>1, <1>2 DEF RateShape
  <1>4. TrackerKeeps
    BY <1>1, <1>2 DEF TrackerKeeps, Stamps, Counts, StampsSince, GrantedSince
  <1>5. WindowBound
    <2>1. ASSUME NEW h, NEW t PROVE Within(granted, h, t) = {}
      BY <1>2 DEF Within
    <2>2. MaxRequests \in Nat
      BY TransfersAssumption
    <2> QED
      BY <2>1, <2>2, FS_EmptySet DEF WindowBound, Within
  <1> QED
    BY <1>3, <1>4, <1>5 DEF RateIInv

-----------------------------------------------------------------------------
(***************************************************************************)
(* What the two invariants give.                                           *)
(***************************************************************************)
TransfersIInv == TransferIInv /\ RateIInv

\* What the runs check of the artifact follows from the invariant.
LEMMA ArtifactFollows ==
    ASSUME TransferIInv
    PROVE  /\ content \in Seq(1 .. (MaxTotal + 1)) /\ seen \in 0 .. MaxTotal
           /\ ArtifactIsPrefix
  <1>1. /\ job \in Jobs /\ content \in Seq(Nat) /\ seen \in 0 .. job.total
        /\ \A i \in 1 .. Len(content) : content[i] = i
    BY DEF TransferIInv, TransferShape, ContentIsDue
  <1>2. /\ job.kind \in {"wget", "wgetftp", "curl", "curlhead", "ftpget", "tftp", "nc", "scp"}
        /\ job.total \in Nat /\ job.total <= MaxTotal
        /\ Blocks \in Nat /\ Blocks = (IF job.kind = "tftp" THEN job.total + 1 ELSE job.total)
    BY <1>1, JobFacts
  <1>3. MaxTotal \in Nat /\ Limit \in Nat
    BY TransfersAssumption
  <1>4. /\ Len(content) \in Nat /\ Len(content) <= Blocks
        /\ Limit > 0 /\ job.kind \in {"wget", "wgetftp", "curl"} => Len(content) <= Limit
    <2>1. Len(content) \in Nat
      BY <1>1
    <2>2. CASE job.kind \in {"wget", "wgetftp", "curl"}
      <3>1. IF Limit > 0 /\ seen > Limit THEN Len(content) = Limit ELSE Len(content) = seen
        BY <2>2 DEF TransferIInv, ContentIsDue
      <3> QED
        BY <1>1, <1>2, <1>3, <2>1, <2>2, <3>1
    <2>3. CASE job.kind \notin {"wget", "wgetftp", "curl"}
      <3>1. \/ job.kind = "ftpget" /\ Len(content) = seen
            \/ job.kind = "tftp" /\ Len(content) <= Blocks
            \/ Len(content) = 0
        BY <1>2, <2>3 DEF TransferIInv, ContentIsDue
      <3> QED
        BY <1>1, <1>2, <2>1, <2>3, <3>1
    <2> QED
      BY <2>2, <2>3
  <1>5. Blocks <= MaxTotal + 1 /\ seen \in 0 .. MaxTotal
    BY <1>1, <1>2, <1>3
  <1>6. content \in Seq(1 .. (MaxTotal + 1))
    <2>0. \A i \in 1 .. Len(content) : i \in 1 .. (MaxTotal + 1)
      BY <1>2, <1>3, <1>4, <1>5
    <2>1. \A i \in 1 .. Len(content) : content[i] \in 1 .. (MaxTotal + 1)
      BY <1>1, <2>0
    <2>2. content = [i \in 1 .. Len(content) |-> content[i]]
      BY <1>1
    <2>3. content \in [1 .. Len(content) -> 1 .. (MaxTotal + 1)]
      BY <2>1, <2>2
    <2> QED
      BY <1>4, <2>3, SeqDef
  <1>7. IsPrefix(content, Whole)
    <2>1. Whole \in Seq(Nat) /\ Len(Whole) = Blocks /\ \A i \in 1 .. Blocks : Whole[i] = i
      BY <1>2 DEF Whole
    <2> DEFINE p == SubSeq(content, 1, Len(content))
               q == SubSeq(Whole, 1, Len(content))
    <2>2. /\ p \in Seq(Nat) /\ Len(p) = (IF 1 <= Len(content) THEN Len(content) - 1 + 1 ELSE 0)
          /\ \A i \in 1 .. (Len(content) - 1 + 1) : p[i] = content[1 + i - 1]
      <3>1. 1 \in Int /\ Len(content) \in Int /\ \A i \in 1 .. Len(content) : content[i] \in Nat
        BY <1>1
      <3> QED
        BY <3>1, SubSeqProperties
    <2>3. /\ q \in Seq(Nat) /\ Len(q) = (IF 1 <= Len(content) THEN Len(content) - 1 + 1 ELSE 0)
          /\ \A i \in 1 .. (Len(content) - 1 + 1) : q[i] = Whole[1 + i - 1]
      <3>1. 1 \in Int /\ Len(content) \in Int /\ \A i \in 1 .. Len(content) : Whole[i] \in Nat
        <4>1. \A i \in 1 .. Len(content) : i \in 1 .. Blocks /\ i \in Nat
          BY <1>2, <1>4
        <4> QED
          BY <1>4, <2>1, <4>1
      <3> QED
        BY <3>1, SubSeqProperties
    <2> HIDE DEF p, q
    <2>4. Len(p) = Len(content) /\ Len(q) = Len(content)
      BY <1>4, <2>2, <2>3
    <2>5. ASSUME NEW i \in 1 .. Len(content) PROVE p[i] = i /\ q[i] = i
      <3>1. i \in 1 .. (Len(content) - 1 + 1) /\ 1 + i - 1 = i /\ i \in 1 .. Blocks
        BY <1>2, <1>4
      <3> QED
        BY <1>1, <2>1, <2>2, <2>3, <3>1
    <2>6. p = q
      BY <2>2, <2>3, <2>4, <2>5, SeqEqual
    <2> QED
      BY <1>4, <2>1, <2>6 DEF IsPrefix, p, q
  <1> QED
    BY <1>4, <1>5, <1>6, <1>7 DEF ArtifactIsPrefix

\* What a transfer keeps of a file over the limit.
LEMMA CutIsLimit ==
    ASSUME TransferIInv, "over" \in odd
    PROVE  content = SubSeq(Whole, 1, Limit)
  <1>1. /\ job \in Jobs /\ content \in Seq(Nat) /\ seen \in 0 .. job.total
        /\ \A i \in 1 .. Len(content) : content[i] = i
        /\ Limit > 0 /\ seen > Limit /\ job.kind \in {"wget", "wgetftp", "curl"} /\ Len(content) = Limit
    BY DEF TransferIInv, TransferShape, ContentIsDue
  <1>2. Limit \in Nat /\ Blocks \in Nat /\ job.total \in Nat /\ Blocks = job.total
    BY <1>1, JobFacts, TransfersAssumption
  <1>3. Limit <= Blocks
    BY <1>1, <1>2
  <1>4. Whole \in Seq(Nat) /\ Len(Whole) = Blocks /\ \A i \in 1 .. Blocks : Whole[i] = i
    BY <1>2 DEF Whole
  <1> DEFINE q == SubSeq(Whole, 1, Limit)
  <1>5. q \in Seq(Nat) /\ Len(q) = Limit /\ \A i \in 1 .. Limit : q[i] = i
    BY <1>1, <1>2, <1>3, <1>4
  <1> HIDE DEF q
  <1>6. content = q
    BY <1>1, <1>5, SeqEqual
  <1> QED
    BY <1>6 DEF q

\* What the runs check follows from the two invariants.
LEMMA TransfersFollow ==
    ASSUME TransfersIInv
    PROVE  TransfersInv /\ TransfersEnd
  <1> USE DEF TransfersIInv
  <1>1. TransfersEnd /\ WindowBound
    BY DEF TransferIInv, RateIInv
  <1>2. /\ content \in Seq(1 .. (MaxTotal + 1)) /\ seen \in 0 .. MaxTotal /\ ArtifactIsPrefix
    BY ArtifactFollows
  <1>3. Reported
    BY DEF TransferIInv
  <1>4. \A e \in ToSet(events) : \E i \in DOMAIN events : e = events[i] /\ e \in Event
    BY <1>3 DEF Reported, ToSet
  <1>5. \A e \in Downloads : /\ e.data = content
                             /\ job.declared /\ "over" \notin odd => content = Whole
                             /\ e.hashed => file = "stored" /\ fp = "closed"
    BY <1>3, <1>4 DEF Reported, Downloads
  <1>o. ASSUME NEW e \in Downloads, job.declared, "over" \in odd
        PROVE  e.data = SubSeq(Whole, 1, Limit) /\ (live => \E x \in ToSet(events) : x.what = "failed")
    <2>1. content = SubSeq(Whole, 1, Limit)
      BY <1>o, CutIsLimit
    <2>2. PICK i \in DOMAIN events : events[i] = e
      BY <1>4 DEF Downloads
    <2>3. pc = "end"
      <3>1. events # <<>>
        BY <2>2
      <3> QED
        BY <3>1 DEF TransferIInv, StageIsRight
    <2>4. live => \E k \in DOMAIN events : events[k].what = "failed"
      BY <1>3, <1>o, <2>3 DEF Reported
    <2> QED
      BY <1>5, <2>1, <2>4 DEF ToSet
  <1>6. ReportedIsWhole
    BY <1>5, <1>o DEF ReportedIsWhole
  <1>7. ReportedIsStored
    BY <1>3, <1>5 DEF Reported, ReportedIsStored
  <1>8. TransfersTypeOK
    <2>1. \A e \in ToSet(events) : e.what \in {"download", "failed"}
      BY <1>4 DEF Event
    <2>2. TransferShape
      BY DEF TransferIInv
    <2>3. tftp.port \in {"off", "open", "draining", "closed"}
      BY <2>2 DEF TransferShape, TftpState
    <2> QED
      BY <1>2, <2>1, <2>2, <2>3 DEF TransferShape, TransfersTypeOK
  <1> QED
    BY <1>1, <1>2, <1>6, <1>7, <1>8 DEF TransfersInv

\* The two invariants hold from the start and in every step.
LEMMA TransfersInductive == TransfersSpec => []TransfersIInv
  <1>1. TransfersInit => TransfersIInv
    BY TransferFirst, RateFirst DEF TransfersIInv
  <1>2. TransfersIInv /\ [TransfersNext]_transfersVars => TransfersIInv'
    <2> SUFFICES ASSUME TransfersIInv, [TransfersNext]_transfersVars PROVE TransfersIInv'
      OBVIOUS
    <2>1. TransferIInv /\ RateIInv /\ job \in Jobs
      BY DEF TransfersIInv, TransferIInv, TransferShape
    <2>2. TransferIInv'
      BY <2>1, TransferNext
    <2>3. RateIInv'
      BY <2>1, RateNext
    <2> QED
      BY <2>2, <2>3 DEF TransfersIInv
  <1> QED
    BY <1>1, <1>2, PTL DEF TransfersSpec

\* What a transfer stores and reports is the remote file, whatever the network loses,
\* repeats or reorders, and the rate limiter keeps its window (collect, handleDATA,
\* collectioncomplete, RateLimiter.check).
THEOREM TransfersAreSound == TransfersSpec => []TransfersInv
  <1>1. TransfersIInv => TransfersInv
    BY TransfersFollow
  <1> QED
    BY <1>1, TransfersInductive, PTL

\* A transfer that nothing interrupts ends in one outcome and gives the terminal back,
\* and a TFTP client in progress has a timeout to end it (exit, handleTimeout, stop).
THEOREM TransfersReport == TransfersSpec => []TransfersEnd
  <1>1. TransfersIInv => TransfersEnd
    BY TransfersFollow
  <1> QED
    BY <1>1, TransfersInductive, PTL
=============================================================================
