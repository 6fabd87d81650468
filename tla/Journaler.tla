------------------------------- MODULE Journaler -------------------------------
(***************************************************************************)
(* The journaler of an agency (agencies/journaler.py): it keeps entries in  *)
(* a cache and flushes them to one writer at a time, SqliteWriter,         *)
(* PostgresWriter or, in a slave agency, BrokerProxyWriter.  A writer has a *)
(* cache of its own, connects on its own, and is left for the next target  *)
(* when a flush fails.  Entries are numbered in the order of their insertion. *)
(*                                                                         *)
(* An operation is a function from the state s to the state after it, and  *)
(* an action is one turn of the reactor.                                   *)
(***************************************************************************)
EXTENDS Naturals, Sequences, SequencesExt, FiniteSets

CONSTANTS
  Targets,      \* the kinds of the connection strings, in order
  MaxEntries,   \* bound: entries inserted
  MaxWriters,   \* bound: writers made
  MaxEvents,    \* bound: faults and orders
  MaxRetries,   \* max_retries of PostgresWriter
  Times,        \* the timestamp of each entry
  Faults,       \* what may go wrong: "connect", "insert", "broker", "late"
  Roles,        \* the roles the agency takes, in order: "slave", "master"
  Orders        \* what an operator does: "reconnect", "close", "rotate"

ASSUME TargetsAssumption == Targets \in Seq({"sqlite", "postgres"}) /\ Targets # <<>>
ASSUME BoundsAssumption ==
  /\ MaxEntries \in Nat /\ MaxWriters \in Nat /\ MaxEvents \in Nat /\ MaxRetries \in Nat
  /\ Times \in [1..MaxEntries -> Nat]
ASSUME RolesAssumption == Roles \in {<<"master">>, <<"slave">>, <<"slave", "master">>}

VARIABLES
  jour,     \* the Journaler
  wr,       \* the writers made so far
  store,    \* what each target holds; the last one is the master's journaler
  mig,      \* migrate_entries()
  told,     \* entries whose insert_entry() has been answered
  env       \* the faults so far, the roles left, the orders given

journalerVars == <<jour, wr, store, mig, told, env>>

Entries == 1..MaxEntries
Master == Len(Targets) + 1
Ops == {"insert", "open", "close"}
OpPhases == {"none", "waiting", "woken", "queued", "started", "inserting"}

State == [jour |-> jour, wr |-> wr, store |-> store, mig |-> mig, told |-> told, env |-> env]
Room ==
  env.faults + Cardinality({o \in {"closed", "reconnected", "rotated"} : env[o]}) < MaxEvents

Become(next) ==
  \E s \in {next} : /\ jour' = s.jour /\ wr' = s.wr /\ store' = s.store
                    /\ mig' = s.mig /\ told' = s.told /\ env' = s.env

-----------------------------------------------------------------------------
(* EntriesCache, of the journaler and of each writer: fetched is 0 when     *)
(* nothing is.                                                             *)
Fetch(c) == [c EXCEPT !.fetched = Len(c.cache)]
Fetched(c) == SubSeq(c.cache, 1, c.fetched)
Commit(c) == [c EXCEPT !.cache = SubSeq(@, c.fetched + 1, Len(@)), !.fetched = 0]
Rollback(c) == [c EXCEPT !.fetched = 0]
Add(c, entries) == [c EXCEPT !.cache = @ \o entries]

NewWriter(target) ==
  [target |-> target, kind |-> IF target = Master THEN "proxy" ELSE Targets[target],
   state |-> "disconnected", opening |-> 0, retry |-> 0, delayed |-> FALSE,
   giveup |-> FALSE, dropped |-> FALSE, cache |-> <<>>, fetched |-> 0,
   ops |-> [op \in Ops |-> "none"], queue |-> <<>>]

Put(s, i, op, phase) == [s EXCEPT !.wr[i].ops[op] = phase]
Is(s, i, kind) == s.wr[i].kind = kind

-----------------------------------------------------------------------------
(* Journaler *)

ScheduleFlush(s) ==
  IF s.jour.state = "connected" /\ s.jour.flush = "none"
  THEN [s EXCEPT !.jour.flush = "due"] ELSE s

(* configure_with(): the new state wakes a flush that waits for it. *)
ConfigureWith(s, i) ==
  IF s.jour.state # "disconnected" THEN s
  ELSE ScheduleFlush([s EXCEPT !.jour.writer = i, !.jour.state = "connected",
         !.jour.flush = IF @ = "waiting" THEN "woken" ELSE @])

Disconnected(s) == [s EXCEPT !.jour.writer = 0, !.jour.state = "disconnected"]

FlushComplete(s) ==
  LET c == [s EXCEPT !.jour = [Commit(@) EXCEPT !.flush = "none", !.waits = {}],
                     !.told = @ \cup s.jour.waits,
                     !.mig.stage = IF @ = "flush" THEN "delete" ELSE @]
  IN  IF c.jour.cache # <<>> THEN ScheduleFlush(c) ELSE c

(* The writer whose flush failed will be closed.                           *)
Drop(s) == IF s.jour.writer = 0 THEN s ELSE [s EXCEPT !.wr[s.jour.writer].dropped = TRUE]

TryNext(s) == [s EXCEPT !.jour.next = @ + 1]

(* Mutants: the entries of a failed flush are forgotten; *)
FlushErrorForgets(s) ==
  TryNext([Disconnected(Drop(s)) EXCEPT !.jour = [Commit(@) EXCEPT !.flush = "none"]])
(* or the next target is not tried. *)
FlushErrorStays(s) ==
  [Disconnected(Drop(s)) EXCEPT !.jour = [Rollback(@) EXCEPT !.flush = "none"]]

FlushError(s) ==
  TryNext([Disconnected(Drop(s)) EXCEPT !.jour = [Rollback(@) EXCEPT !.flush = "none"]])

-----------------------------------------------------------------------------
(* Writers *)

(* _flush_next() in the state that in_state() asks for: it is over when the *)
(* cache is empty.  The answer of an insert goes to the journaler; that of *)
(* a close() closes the writer and wakes with an error those who wait for  *)
(* its connection.  When the first flush of a writer fails its initiate()    *)
(* does, and no entries are migrated to it.                                *)
SkipMigration(s, i) ==
  [s EXCEPT !.mig.stage = IF @ = "open" /\ s.mig.to = i THEN "skip" ELSE @]

OpFails(s, i, op) ==
  LET c == Put(s, i, op, "none")
  IN  CASE op = "insert" -> FlushError(c)
        [] op = "open" -> SkipMigration(c, i)
        [] op = "close" -> IF c.jour.closing = i THEN Disconnected([c EXCEPT !.jour.closing = 0])
                           ELSE c

Cancelled(s, i) == IF s.wr[i].ops["insert"] = "waiting" THEN OpFails(s, i, "insert") ELSE s

WriterClosed(s, i) ==
  LET c == [s EXCEPT !.wr[i].state = "disconnected"]
      d == IF Is(s, i, "proxy") THEN c ELSE Cancelled(c, i)
  IN  IF d.jour.closing = i THEN Disconnected([d EXCEPT !.jour.closing = 0]) ELSE d

(* The proxy answers an insert as soon as anybody finds its cache empty. *)
OpDone(s, i, op) ==
  LET answered == op = "insert" \/ (Is(s, i, "proxy") /\ s.wr[i].ops["insert"] # "none")
      c == Put(s, i, op, "none")
      d == IF answered THEN FlushComplete(Put(c, i, "insert", "none")) ELSE c
  IN  IF op = "close" THEN WriterClosed(d, i) ELSE d

(* Mutant: no semaphore. *)
NoSemaphore(s, i) == FALSE

(* The semaphore lets one of them write a batch at a time, in order.  A     *)
(* postgres writer that is closing has no connection for one more batch.   *)
Busy(s, i) == \E op \in Ops : s.wr[i].ops[op] \in {"started", "inserting"}

FlushBody(s, i, op) ==
  IF s.wr[i].cache = <<>> THEN OpDone(s, i, op)
  ELSE IF Is(s, i, "postgres") /\ s.wr[i].giveup THEN OpFails(s, i, op)
  ELSE IF Busy(s, i) THEN [Put(s, i, op, "queued") EXCEPT !.wr[i].queue = Append(@, op)]
  ELSE Put(s, i, op, "started")

Release(s, i, op) ==
  LET c == Put(s, i, op, "none")
  IN  IF c.wr[i].queue = <<>> THEN c
      ELSE [Put(c, i, Head(c.wr[i].queue), "started") EXCEPT !.wr[i].queue = Tail(@)]

FlushNext(s, i, op) ==
  IF s.wr[i].state = "connected" THEN FlushBody(s, i, op) ELSE Put(s, i, op, "waiting")

(* initiate() *)
Connecting(w) ==
  [w EXCEPT !.opening = @ + 1, !.giveup = FALSE, !.delayed = FALSE,
            !.retry = IF w.kind = "postgres" THEN @ + 1 ELSE 0]
Initiate(s, i) == [s EXCEPT !.wr[i] = Connecting(@)]

(* The notifier wakes everybody who waits for the connection. *)
Connected(s, i) ==
  [s EXCEPT !.wr[i].state = "connected", !.wr[i].opening = @ - 1, !.wr[i].retry = 0,
            !.wr[i].ops = [op \in Ops |-> IF @[op] = "waiting" THEN "woken" ELSE @[op]]]

(* _connection_failed() and the end of a sqlite initiate() that failed. *)
ConnectionFailed(s, i) ==
  LET c == [s EXCEPT !.wr[i].opening = @ - 1]
  IN  IF ~Is(s, i, "postgres") THEN c
      ELSE IF s.wr[i].giveup \/ s.wr[i].retry + 1 > MaxRetries THEN Cancelled(c, i)
      ELSE [c EXCEPT !.wr[i].delayed = TRUE]

(* close() of the writer: one batch is begun before the connection is given *)
(* back.                                                                   *)
CloseWriter(s, i, flush) ==
  LET c == [s EXCEPT !.wr[i].giveup = TRUE]
  IN  CASE Is(s, i, "sqlite") /\ s.wr[i].state = "disconnected" ->
             IF s.jour.closing = i THEN Disconnected([s EXCEPT !.jour.closing = 0]) ELSE s
        [] Is(s, i, "postgres") /\ s.wr[i].opening > 0 ->
             WriterClosed(ConnectionFailed(c, i), i)
        [] flush /\ (Is(s, i, "proxy") \/ s.wr[i].state = "connected") ->
             [FlushNext(s, i, "close") EXCEPT !.wr[i].giveup = TRUE]
        [] OTHER -> WriterClosed(c, i)

(* use_next_writer() up to the call of initiate() *)
MakeWriter(s, target) == [s EXCEPT !.wr = Append(@, NewWriter(target))]

UseNextWriter(s) ==
  LET index == (s.jour.index % Len(Targets)) + 1
      i == Len(s.wr) + 1
      c == MakeWriter([s EXCEPT !.jour.index = index], index)
      d == IF c.jour.writer = 0 THEN c ELSE CloseWriter(c, c.jour.writer, FALSE)
  IN  Initiate(ConfigureWith(Disconnected(d), i), i)

(* Mutants: the batch is stored and stays in the cache, *)
StoredTwice(s, i) ==
  [s EXCEPT !.store[s.wr[i].target] = @ \o Fetched(s.wr[i]),
            !.wr[i] = Rollback(@)]
(* or what came while it was written is dropped with it. *)
StoredAll(s, i) ==
  [s EXCEPT !.store[s.wr[i].target] = @ \o Fetched(s.wr[i]),
            !.wr[i] = [@ EXCEPT !.cache = <<>>, !.fetched = 0]]

(* What happens to a batch: it is stored and committed, or rolled back.     *)
Stored(s, i) ==
  [s EXCEPT !.store[s.wr[i].target] = @ \o Fetched(s.wr[i]), !.wr[i] = Commit(@)]
RolledBack(s, i) == [s EXCEPT !.wr[i] = Rollback(@)]

-----------------------------------------------------------------------------
(* What the agency and its operator do *)

InsertEntry ==
  /\ env.inserted < MaxEntries
  /\ LET e == env.inserted + 1
     IN  Become(ScheduleFlush([State EXCEPT !.env.inserted = e, !.jour = Add(@, <<e>>),
                                            !.jour.waits = @ \cup {e}]))

(* on_become_master(): set_connection_strings().  on_become_slave(). *)
TakeRole ==
  /\ env.roles # <<>> /\ jour.writer = 0 /\ Len(wr) < MaxWriters
  /\ LET s == [State EXCEPT !.env.roles = Tail(@)]
         i == Len(wr) + 1
     IN  IF Head(env.roles) = "master" THEN Become(UseNextWriter(s))
         ELSE Become(ConfigureWith(Initiate(MakeWriter(s, Master), i), i))

(* The connection to the master is lost: a batch on its way is rolled back,*)
(* and on_broker_disconnect() closes the journaler.                        *)
CutOff(w) ==
  [Rollback(w) EXCEPT !.state = "disconnected", !.opening = 0, !.queue = <<>>,
     !.ops = [op \in Ops |-> IF w.ops[op] = "none" THEN "none" ELSE "waiting"]]
BrokerLost ==
  /\ "broker" \in Faults /\ Room
  /\ jour.writer # 0 /\ wr[jour.writer].kind = "proxy"
  /\ Become(Disconnected([State EXCEPT !.env.faults = @ + 1, !.wr[jour.writer] = CutOff(@)]))

(* close() of the journaler.  Bound: a writer is closed once at a time. *)
CloseJournaler ==
  /\ "close" \in Orders /\ ~env.closed /\ Room
  /\ jour.writer # 0 => wr[jour.writer].ops["close"] = "none"
  /\ \E flush \in BOOLEAN :
       LET s == [State EXCEPT !.env.closed = TRUE, !.jour.closing = jour.writer]
       IN  Become(IF jour.writer = 0 THEN Disconnected(s) ELSE CloseWriter(s, jour.writer, flush))

(* reconnect_to_primary_writer(): the index it asks for, 0, counts as none. *)
Reconnect ==
  /\ "reconnect" \in Orders /\ ~env.reconnected /\ ~env.closed /\ Room
  /\ jour.index > 1 /\ Len(wr) < MaxWriters
  /\ LET old == jour.writer
         s == [State EXCEPT !.env.reconnected = TRUE, !.jour.writer = 0,
                            !.jour.state = IF old = 0 THEN @ ELSE "disconnected"]
         c == UseNextWriter(s)
     IN  Become(IF old = 0 \/ wr[old].kind # "sqlite" THEN c
                ELSE [c EXCEPT !.mig = [stage |-> "open", from |-> old, to |-> Len(c.wr), n |-> 0]])

(* SIGHUP: _sighup_handler() of the sqlite writer.  Bound: one at a time. *)
Rotate(i) ==
  /\ "rotate" \in Orders /\ ~env.rotated /\ Room
  /\ wr[i].kind = "sqlite" /\ wr[i].opening = 0
  /\ wr[i].ops["open"] = "none" /\ wr[i].ops["close"] = "none"
  /\ mig.stage = "none" \/ mig.from # i
  /\ Become(Initiate(CloseWriter([State EXCEPT !.env.rotated = TRUE], i, TRUE), i))

-----------------------------------------------------------------------------
(* What the reactor does *)

WriteFetched(s) ==
  LET c == [s EXCEPT !.jour = Fetch(@)]
      i == c.jour.writer
  IN  IF c.jour.cache = <<>> THEN FlushComplete(c)
      ELSE IF i = 0 THEN FlushError(c)
      ELSE FlushNext([c EXCEPT !.jour.flush = "writing", !.jour.by = i,
                               !.wr[i] = Add(@, Fetched(c.jour))], i, "insert")

Flush ==
  \/ /\ jour.flush = "due"
     /\ IF jour.state = "connected" THEN Become(WriteFetched(State))
        ELSE Become([State EXCEPT !.jour.flush = "waiting"])
  \/ /\ jour.flush = "woken"
     /\ Become(WriteFetched(State))

NextWriter ==
  /\ jour.next > 0 /\ Len(wr) < MaxWriters
  /\ Become(UseNextWriter([State EXCEPT !.jour.next = @ - 1]))

CloseDropped(i) ==
  /\ wr[i].dropped
  /\ Become(CloseWriter([State EXCEPT !.wr[i].dropped = FALSE], i, FALSE))

(* _initiated_ok(), _connection_established(): they flush at once. *)
Open(i) ==
  /\ wr[i].opening > 0
  /\ LET c == Connected(State, i)
     IN  Become(IF wr[i].kind = "proxy" THEN c ELSE FlushNext(c, i, "open"))

OpenFails(i) ==
  /\ "connect" \in Faults /\ Room
  /\ wr[i].opening > 0 /\ wr[i].kind = "postgres"
  /\ Become(ConnectionFailed([State EXCEPT !.env.faults = @ + 1], i))

Reopen(i) == wr[i].delayed /\ Become(Initiate(State, i))

Woken(i, op) ==
  /\ wr[i].ops[op] = "woken"
  /\ Become(FlushBody(State, i, op))

StartInsert(i, op) ==
  /\ wr[i].ops[op] = "started"
  /\ Become(Put([State EXCEPT !.wr[i] = Fetch(@)], i, op, "inserting"))

Inserted(i, op) ==
  /\ wr[i].ops[op] = "inserting"
  /\ Become(FlushNext(Release(Stored(State, i), i, op), i, op))

(* A sql transaction that fails makes the flush fail; the proxy tries again. *)
InsertFails(i, op) ==
  /\ wr[i].ops[op] = "inserting" /\ "insert" \in Faults /\ Room
  /\ LET c == Release(RolledBack([State EXCEPT !.env.faults = @ + 1], i), i, op)
     IN  Become(IF wr[i].kind = "proxy" THEN FlushNext(c, i, op) ELSE OpFails(c, i, op))

(* The master takes the batch but its answer comes after the timeout. *)
InsertLate(i, op) ==
  /\ wr[i].ops[op] = "inserting" /\ "late" \in Faults /\ Room
  /\ wr[i].kind = "proxy"
  /\ LET c == [State EXCEPT !.env.faults = @ + 1,
                            !.store[Master] = @ \o Fetched(wr[i])]
     IN  Become(FlushNext(Release(RolledBack(c, i), i, op), i, op))

(* migrate_entries(): entries are read and deleted in the order of their    *)
(* timestamps.  before[k] are the positions that come before k.             *)
Ordered(before) ==
  [r \in 1..Cardinality(DOMAIN before) |->
     CHOOSE k \in DOMAIN before : Cardinality(before[k]) = r - 1]
Precedes(entries, l, k) ==
  \/ Times[entries[l]] < Times[entries[k]]
  \/ Times[entries[l]] = Times[entries[k]] /\ l < k
InTime(entries) ==
  Ordered([k \in DOMAIN entries |-> {l \in DOMAIN entries : Precedes(entries, l, k)}])
(* Mutant: as many entries are deleted from the end. *)
Bottom(entries, n) == {Len(entries) + 1 - k : k \in 1..n}

Top(entries, n) == {InTime(entries)[k] : k \in 1..n}
Without(entries, ks) ==
  LET ls == DOMAIN entries \ ks
      kept == Ordered([k \in ls |-> {l \in ls : l < k}])
  IN  [k \in DOMAIN kept |-> entries[kept[k]]]
MigrateRead(s) ==
  LET held == s.store[s.wr[s.mig.from].target]
      batch == [k \in DOMAIN held |-> held[InTime(held)[k]]]
  IN  IF held = <<>> THEN CloseWriter([s EXCEPT !.mig.stage = "none"], s.mig.from, TRUE)
      ELSE ScheduleFlush([s EXCEPT !.jour = Add(@, batch), !.mig.stage = "flush",
                                   !.mig.n = Len(held)])

MigrateDelete(s) ==
  [s EXCEPT !.mig.stage = "read",
     !.store[s.wr[s.mig.from].target] = Without(@, Top(@, s.mig.n))]

(* Bound: the writer that is left is closed once at a time.                *)
Migrate ==
  \/ /\ mig.stage = "open" /\ wr[mig.to].opening = 0 /\ wr[mig.to].ops["open"] = "none"
     /\ Become([State EXCEPT !.mig.stage = "read"])
  \/ /\ mig.stage = "skip" /\ wr[mig.from].ops["close"] = "none"
     /\ Become(CloseWriter([State EXCEPT !.mig.stage = "none"], mig.from, TRUE))
  \/ /\ mig.stage = "read" /\ wr[mig.from].state = "connected"
     /\ wr[mig.from].ops["close"] = "none"
     /\ Become(MigrateRead(State))
  \/ /\ mig.stage = "delete" /\ wr[mig.from].state = "connected"
     /\ Become(MigrateDelete(State))

-----------------------------------------------------------------------------
JournalerInit ==
  /\ jour = [state |-> "disconnected", writer |-> 0, index |-> 0, cache |-> <<>>,
             fetched |-> 0, flush |-> "none", by |-> 0, waits |-> {}, next |-> 0, closing |-> 0]
  /\ wr = <<>> /\ store = [t \in 1..Master |-> <<>>]
  /\ mig = [stage |-> "none", from |-> 0, to |-> 0, n |-> 0]
  /\ told = {}
  /\ env = [faults |-> 0, roles |-> Roles, inserted |-> 0, closed |-> FALSE,
            reconnected |-> FALSE, rotated |-> FALSE]

JournalerNext ==
  \/ InsertEntry \/ TakeRole \/ BrokerLost \/ CloseJournaler \/ Reconnect
  \/ Flush \/ NextWriter \/ Migrate
  \/ \E i \in DOMAIN wr :
       \/ Rotate(i) \/ CloseDropped(i) \/ Open(i) \/ OpenFails(i) \/ Reopen(i)
       \/ \E op \in Ops :
            Woken(i, op) \/ StartInsert(i, op) \/ Inserted(i, op)
            \/ InsertFails(i, op) \/ InsertLate(i, op)

JournalerSpec == JournalerInit /\ [][JournalerNext]_journalerVars

(* The state has its type; above all, what is fetched is there, and one     *)
(* batch at a time is written by a writer.                                 *)
JournalerTypeOK ==
  /\ jour.state \in {"connected", "disconnected"} /\ jour.writer \in 0..Len(wr)
  /\ jour.flush \in {"none", "due", "waiting", "woken", "writing"}
  /\ jour.fetched \in 0..Len(jour.cache) /\ jour.waits \subseteq Entries
  /\ jour.fetched > 0 <=> jour.flush = "writing"
  /\ told \subseteq Entries /\ Len(wr) <= MaxWriters
  /\ \A i \in DOMAIN wr :
       /\ wr[i].ops \in [Ops -> OpPhases] /\ wr[i].fetched \in 0..Len(wr[i].cache)
       /\ Cardinality({op \in Ops : wr[i].ops[op] \in {"started", "inserting"}}) <= 1
       /\ \A op \in Ops : wr[i].ops[op] = "queued" <=> op \in Range(wr[i].queue)

-----------------------------------------------------------------------------
Held == UNION {Range(store[t]) : t \in DOMAIN store}

(* The writer that entries are migrated to has been left for another one,   *)
(* which may write to the file they are read from.                         *)
Interrupted == mig.to # 0 /\ Len(wr) > mig.to

(* An entry is stamped when it is made and inserted when it is complete, or *)
(* when a slave's batch arrives; delete_top_journal_entries() takes another *)
(* entry for it when an older one has the later timestamp.                 *)
Misdated(e) == \E d \in 1..e : Times[d] > Times[e]

(* An entry that was inserted is stored, or the journaler still has it,     *)
(* whatever writers come and go, unless a migration is interrupted or takes *)
(* the entry for another one.                                              *)
Kept ==
  \A e \in 1..env.inserted :
    e \in Held \/ e \in Range(jour.cache) \/ (mig.to # 0 /\ Misdated(e))
NothingLost == Interrupted \/ Kept

(* As long as nothing has failed no target holds an entry twice, whatever   *)
(* is flushed, rotated and closed at the same time.                        *)
StoredOnce == env.faults = 0 => \A t \in DOMAIN store : IsInjective(store[t])

(* The entries are safe: none is lost, none is stored twice without cause. *)
EntriesSafe == JournalerTypeOK /\ NothingLost /\ StoredOnce

(* Tests of the journaler (test_agencies_journaler.py): "yield             *)
(* jour.insert_entry(...)" and then the entry is read from the writer.     *)
ToldWhenStored == told \subseteq Held

(* reconnect_to_primary_writer(): "Journaler is already using primary      *)
(* writer": after it the journaler uses it.                                *)
BackToPrimary ==
  [][~env.reconnected /\ env'.reconnected => jour'.index = 1]_journalerVars

(* close(): a journaler that was closed does not open another writer.      *)
StaysClosed == [][env.closed => Len(wr') = Len(wr)]_journalerVars

-----------------------------------------------------------------------------
(* Calls are made, connections end one way or the other, batches are       *)
(* answered: as long as anything is due, now and then it is done.          *)
Due ==
  UNION { {<<"flush">> : k \in {f \in {jour.flush} : f \in {"due", "woken"}}},
          {<<"next", jour.next>> : k \in {n \in {jour.next} : n > 0 /\ Len(wr) < MaxWriters}},
          {<<"role", Len(env.roles)>> :
             k \in {n \in {env.roles} : n # <<>> /\ jour.writer = 0 /\ Len(wr) < MaxWriters}},
          {<<"open", i, wr[i].retry>> : i \in {k \in DOMAIN wr : wr[k].opening > 0}},
          {<<"again", i>> : i \in {k \in DOMAIN wr : wr[k].delayed}},
          UNION { {<<"op", i, op, wr[i].ops[op], wr[i].cache>> :
                     op \in {p \in Ops : wr[i].ops[p] \in {"woken", "started", "inserting"}}} :
                  i \in DOMAIN wr } }
JournalerFairness == []<>(Due = {}) \/ []<><<Due \ Due' # {}>>_journalerVars
JournalerFairSpec == JournalerSpec /\ JournalerFairness

(* A flush that waits for a connection which nobody is making any more: of *)
(* a proxy that was cut off, of a writer that gave up beforehand, or of one *)
(* whose close() ended after the initiate() that a SIGHUP began.            *)
Abandoned ==
  /\ jour.flush = "writing" /\ wr[jour.by].ops["insert"] = "waiting"
  /\ wr[jour.by].opening = 0 /\ ~wr[jour.by].delayed

(* Every entry gets to a target in the end, unless the journaler is closed, *)
(* its flush is abandoned, or a migration is interrupted or takes the entry *)
(* for another one.                                                        *)
Delivered ==
  \A e \in Entries :
    env.inserted >= e ~>
      e \in Held \/ env.closed \/ Abandoned \/ Interrupted \/ Misdated(e)
=============================================================================
