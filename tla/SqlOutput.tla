----------------------------- MODULE SqlOutput -----------------------------
(***************************************************************************)
(* The SQL output plugins of Cowrie (output/mysql.py, sqlite.py,           *)
(* postgresql.py).  write() puts queries in the queue of a connection pool *)
(* and does not wait for them; two events need an id first, the connect    *)
(* event that of the sensor and the version event that of the client, and  *)
(* are coroutines that queue a query when the answer of the last one comes *)
(* back to the reactor.                                                    *)
(*                                                                         *)
(* MySQL and PostgreSQL have one connection, SQLite one per thread of the  *)
(* pool.  An id is a pair of its table and its number, so that an id of    *)
(* another table shows.  Every event that is one INSERT is a login here    *)
(* and every event that is one UPDATE of the session the closed event.  A  *)
(* login by public key, or by none, carries no password: write() raises    *)
(* KeyError when it puts the row together, as it does in SQLite for a      *)
(* download without a URL; such an event is the login "key".               *)
(***************************************************************************)
EXTENDS Naturals, Sequences, FiniteSets

CONSTANTS Conns,      \* the sessions
          Logs,       \* [Conns -> SUBSET EventKinds]: what a session logs
          MaxFaults   \* [Databases -> Nat]: bound on what goes wrong, errors and a stop

Databases == {"mysql", "sqlite", "postgresql"}
Tables == {"sensors", "clients", "auth"}
EventKinds == {"clients", "auth", "key"}
NoId == <<"none", 0>>

ASSUME SqlAssumption == /\ IsFiniteSet(Conns) /\ Conns \subseteq Nat /\ MaxFaults \in [Databases -> Nat]
                        /\ Logs \in [Conns -> SUBSET EventKinds]

VARIABLES db,       \* the database of this sensor
          known,    \* were the sensor and the client in their tables from the start?
          state,    \* the sessions: "new", "open", "closed"
          logged,   \* events a session logged
          queue,    \* queries given to the pool, not yet run
          answers,  \* answers on their way to the reactor
          ids,      \* the ids LAST_INSERT_ID may return: of the connection it runs on
          rows,     \* rows of each table
          stored,   \* the table sessions
          closing,  \* was stop() called?
          errors,   \* queries that raised (history)
          repeated, \* queries that were committed and run again (history)
          intime,   \* sessions that closed when their row was stored or queued (history)
          soon      \* sessions whose sensor or client was not there to be found (history)

sqlVars == <<db, known, state, logged, queue, answers, ids, rows, stored, closing, errors,
             repeated, intime, soon>>

SqlInit == /\ db \in Databases /\ known \in BOOLEAN
           /\ state = [s \in Conns |-> "new"] /\ logged = [s \in Conns |-> {}]
           /\ queue = <<>> /\ answers = <<>> /\ ids = {NoId}
           /\ rows = [t \in Tables |-> IF t # "auth" /\ known THEN 1 ELSE 0]
           /\ stored = <<>> /\ closing = FALSE /\ errors = {} /\ repeated = {}
           /\ intime = {} /\ soon = {}

Find(s, t) == [op |-> "find", of |-> s, table |-> t, id |-> NoId]
Insert(s, t) == [op |-> "insert", of |-> s, table |-> t, id |-> NoId]
LastId(s, t) == [op |-> "last", of |-> s, table |-> t, id |-> NoId]
Use(s, t, id) == [op |-> "use", of |-> s, table |-> t, id |-> id]
SetEnd(s) == [op |-> "end", of |-> s, table |-> "sessions", id |-> NoId]

(* runQuery; a closed pool takes no more.  The order is of no account with *)
(* threads that take the queries together, and is by session then.         *)
Put(q) ==
    LET k == Cardinality({i \in DOMAIN queue : queue[i].of <= q.of})
    IN  IF db = "sqlite" THEN SubSeq(queue, 1, k) \o <<q>> \o SubSeq(queue, k + 1, Len(queue))
        ELSE Append(queue, q)
Queued(q) == queue' = IF closing THEN queue ELSE Put(q)

Faults == Cardinality(errors) + Cardinality(repeated) + (IF closing THEN 1 ELSE 0)

-----------------------------------------------------------------------------
(* The events: write(). *)
SqlConnect(s) ==
    /\ state[s] = "new" /\ state' = [state EXCEPT ![s] = "open"]
    /\ Queued(Find(s, "sensors"))
    /\ soon' = IF rows["sensors"] = 0 THEN soon \cup {<<s, "sensors">>} ELSE soon
    /\ UNCHANGED <<db, known, intime, logged, answers, ids, rows, stored, closing, errors, repeated>>

SqlEvent(s, t) ==
    /\ state[s] = "open" /\ t \notin logged[s]
    /\ logged' = [logged EXCEPT ![s] = @ \cup {t}]
    /\ \/ t = "clients" /\ Queued(Find(s, t))
       \/ t = "auth" /\ Queued(Insert(s, t))
       \/ t = "key" /\ UNCHANGED queue
    /\ soon' = IF t = "clients" /\ rows[t] = 0 THEN soon \cup {<<s, t>>} ELSE soon
    /\ UNCHANGED <<db, known, intime, state, answers, ids, rows, stored, closing, errors, repeated>>

SqlClosed(s) ==
    /\ state[s] = "open" /\ state' = [state EXCEPT ![s] = "closed"]
    /\ Queued(SetEnd(s))
    /\ intime' = IF ~closing /\ (s \in DOMAIN stored \/ \E i \in DOMAIN queue :
                                    queue[i].of = s /\ queue[i].op = "use" /\ queue[i].table = "sensors")
                 THEN intime \cup {s} ELSE intime
    /\ UNCHANGED <<db, known, logged, answers, ids, rows, stored, closing, errors, repeated, soon>>

-----------------------------------------------------------------------------
(* The pool.  Queries start in order; with more than one thread they end in *)
(* any order.                                                               *)
Runnable == IF db = "sqlite" THEN DOMAIN queue ELSE DOMAIN queue \cap {1}

(* Rows of a table and ids of the connection when n rows were inserted. *)
Inserted(t, n) ==
    /\ rows' = [rows EXCEPT ![t] = @ + n]
    /\ ids' = (IF db = "sqlite" THEN ids ELSE {}) \cup {<<t, rows[t] + n>>}

(* What a query does to the tables, run n times: a lost connection is       *)
(* replaced and the query run again, whether or not it was committed.       *)
Effect(q, n) ==
    \/ /\ q.op = "insert" /\ Inserted(q.table, n) /\ UNCHANGED stored
    \/ /\ q.op = "use" /\ q.table = "sensors"
       /\ stored' = [s \in DOMAIN stored \cup {q.of} |->
                       IF s = q.of THEN [sensor |-> q.id, client |-> NoId, end |-> FALSE]
                       ELSE stored[s]]
       /\ UNCHANGED <<rows, ids>>
    \/ /\ q.op = "use" /\ q.table = "clients"
       /\ stored' = [s \in DOMAIN stored |->
                       IF s = q.of THEN [stored[s] EXCEPT !.client = q.id] ELSE stored[s]]
       /\ UNCHANGED <<rows, ids>>
    \/ /\ q.op = "end"
       /\ stored' = [s \in DOMAIN stored |->
                       IF s = q.of THEN [stored[s] EXCEPT !.end = TRUE] ELSE stored[s]]
       /\ UNCHANGED <<rows, ids>>
    \/ /\ q.op \in {"find", "last"} /\ UNCHANGED <<rows, ids, stored>>

(* The answer of a query: for a coroutine, the id found or NoId. *)
AnswerNewest(q) ==
    IF q.op = "find"
    THEN {[q EXCEPT !.id = IF rows[q.table] > 0 THEN <<q.table, rows[q.table]>> ELSE NoId]}
    ELSE IF q.op = "last" THEN {[q EXCEPT !.id = i] : i \in ids}
    ELSE IF q.op = "insert" /\ q.table # "auth" THEN {q}
    ELSE {}
Answer(q) ==
    IF q.op = "find" THEN {[q EXCEPT !.id = IF rows[q.table] > 0 THEN <<q.table, 1>> ELSE NoId]}
    ELSE IF q.op = "last" THEN {[q EXCEPT !.id = i] : i \in ids}
    ELSE IF q.op = "insert" /\ q.table # "auth" THEN {q}
    ELSE {}

(* psycopg2 has nothing to fetch after an INSERT that returns nothing: the *)
(* query raises and is rolled back (simpleQuery asks for the id it ignores). *)
Unfetchable(q) == db = "postgresql" /\ q.op = "insert" /\ q.table # "auth"

Without(i) == SubSeq(queue, 1, i - 1) \o SubSeq(queue, i + 1, Len(queue))

RunQuery(i) ==
    LET q == queue[i]
    IN /\ ~Unfetchable(q)
       /\ queue' = Without(i)
       /\ Effect(q, 1)
       /\ IF Answer(q) = {} THEN UNCHANGED answers
          ELSE \E a \in Answer(q) : answers' = Append(answers, a)
       /\ UNCHANGED <<db, known, intime, state, logged, closing, errors, repeated, soon>>

(* ReconnectingConnectionPool: the query was committed and the connection   *)
(* lost; the retry runs on a new connection.                                *)
RunAgain(i) ==
    LET q == queue[i]
    IN /\ db # "sqlite" /\ q.op = "insert" /\ ~Unfetchable(q)
       /\ Faults < MaxFaults[db]
       /\ queue' = Without(i) /\ repeated' = repeated \cup {<<q.of, q.table>>}
       /\ Effect(q, 2)
       /\ IF Answer(q) = {} THEN UNCHANGED answers
          ELSE \E a \in Answer(q) : answers' = Append(answers, a)
       /\ UNCHANGED <<db, known, intime, state, logged, closing, errors, soon>>

(* The query raises: sqlerror() logs it, a coroutine ends. *)
RunFails(i) ==
    LET q == queue[i]
    IN /\ \/ Unfetchable(q)
          \/ Faults < MaxFaults[db]
       /\ queue' = Without(i)
       /\ errors' = IF Unfetchable(q) THEN errors ELSE errors \cup {<<q.of, q.op, q.table>>}
       /\ UNCHANGED <<db, known, intime, state, logged, answers, ids, rows, stored, closing, repeated, soon>>

(* The coroutines go on. *)
Resume ==
    /\ answers # <<>> /\ answers' = Tail(answers)
    /\ LET q == Head(answers)
       IN \/ /\ q.op = "find" /\ q.id # NoId /\ Queued(Use(q.of, q.table, q.id))
          \/ /\ q.op = "find" /\ q.id = NoId /\ Queued(Insert(q.of, q.table))
          \/ /\ q.op = "insert" /\ Queued(LastId(q.of, q.table))
          \/ /\ q.op = "last" /\ Queued(Use(q.of, q.table, q.id))
    /\ UNCHANGED <<db, known, intime, state, logged, ids, rows, stored, closing, errors, repeated, soon>>

(* stop(): the queries in the queue are run, no others. *)
SqlStop == /\ ~closing /\ Faults < MaxFaults[db] /\ closing' = TRUE
           /\ UNCHANGED <<db, known, intime, state, logged, queue, answers, ids, rows, stored, errors,
                          repeated, soon>>

SqlNext == \/ \E s \in Conns : \/ SqlConnect(s) \/ SqlClosed(s)
                               \/ \E t \in Logs[s] : SqlEvent(s, t)
           \/ \E i \in Runnable : RunQuery(i) \/ RunAgain(i) \/ RunFails(i)
           \/ Resume
           \/ SqlStop

-----------------------------------------------------------------------------
Quiet == queue = <<>> /\ answers = <<>>
Failed(s) == \E e \in errors : e[1] = s

(* When the queue is empty every session is in the table sessions, unless one *)
(* of its queries raised or the plugin was stopped; PostgreSQL has only the   *)
(* sessions of a sensor that its table sensors already named, because the     *)
(* INSERT of the sensor fetches nothing (postgresql.py write).                *)
SessionsAreStored ==
    Quiet /\ ~closing =>
        \A s \in Conns : state[s] # "new" /\ ~Failed(s) =>
            (s \in DOMAIN stored <=> (db # "postgresql" \/ known))

(* A session that connects when the sensors row is there gets the id of that  *)
(* row, and the version event of a client that is there that of the client,   *)
(* however other sessions' inserts are interleaved (the SELECT comes first).  *)
KnownIdIsUsed ==
    \A s \in DOMAIN stored :
        /\ <<s, "sensors">> \notin soon => stored[s].sensor = <<"sensors", 1>>
        /\ <<s, "clients">> \notin soon => stored[s].client \in {NoId, <<"clients", 1>>}

(* Only sessions that looked before the row was there add a row of the sensor *)
(* or of a client version, each at most one and one more for each INSERT that *)
(* was run again: duplicates come from overlapping coroutines only.           *)
RowsAreBounded ==
    \A t \in {"sensors", "clients"} :
        rows[t] <= (IF known THEN 1 ELSE 0)
                   + Cardinality({s \in Conns : <<s, t>> \in soon})
                   + Cardinality({s \in Conns : <<s, t>> \in repeated})

(* A login with a password has one row when the queue is empty, unless its    *)
(* query raised, was run again or came after stop(); one without a password   *)
(* leaves no row and holds up none (mysql.py write).                          *)
OneRowPerEvent ==
    Quiet /\ ~closing =>
        rows["auth"] = Cardinality({s \in Conns : "auth" \in logged[s]})
                       + Cardinality({s \in Conns : <<s, "auth">> \in repeated})
                       - Cardinality({s \in Conns : <<s, "insert", "auth">> \in errors})

(* With one connection the end of a session is stored when the queue is empty, *)
(* if its row was in the table or on its way when it closed: what was queued   *)
(* later runs later (mysql.py cp_max = 1).  A session that closes before its   *)
(* coroutine came to the row never gets an end.                                *)
EndIsStored ==
    Quiet /\ db # "sqlite" =>
        \A s \in intime : ~Failed(s) => s \in DOMAIN stored /\ stored[s].end
(* The tables agree with the sessions, however their queries are interleaved, *)
(* run again or fail.                                                         *)
SqlInv == SessionsAreStored /\ KnownIdIsUsed /\ RowsAreBounded /\ OneRowPerEvent /\ EndIsStored
=============================================================================
