---------------------------- MODULE ExplorerKeys ----------------------------
(***************************************************************************)
(* The API keys of one block explorer (deposit-scanner-explorer-key-pool): *)
(* a key may serve so many successful calls a day, counted in its row, and *)
(* so many leases a second, counted in memory.  Scanners take a lease; a   *)
(* balance probe looks at the first key only and takes none.  A call is    *)
(* counted after its answer, by a statement nobody waits for.  Whether     *)
(* there are keys at all is cached by each process; the admin's routes     *)
(* invalidate the cache of the process they run in.                        *)
(***************************************************************************)
EXTENDS Integers, FiniteSets, FiniteSetsExt

CONSTANTS
  NumKeys,       (* keys of the rail, in sort order                         *)
  MaxPerDay,     (* max_requests_per_day                                    *)
  MaxPerSecond,  (* max_requests_per_second                                 *)
  Processes,
  Api,           (* the process that serves the admin's routes              *)
  Clients,       (* flows of the processes, each makes one call at a time   *)
  ProcessOf,     (* client -> its process                                   *)
  Probes,        (* the clients that only look at the first key             *)
  LastDay,       (* the model ends on this day                              *)
  MaxAnswers,    (* a client gets no more answers than this                 *)
  MaxChanges     (* the admin makes no more changes than this               *)

Keys == 1 .. NumKeys

ASSUME KeyConstants ==
  /\ {NumKeys, MaxPerDay, MaxPerSecond} \subseteq Nat \ {0}
  /\ {LastDay, MaxAnswers, MaxChanges} \subseteq Nat
  /\ Api \in Processes /\ ProcessOf \in [Clients -> Processes]
  /\ IsFiniteSet(Clients) /\ Probes \subseteq Clients

VARIABLES
  active,     (* keys that are active                                       *)
  used,       (* key -> requests_today                                      *)
  usedOn,     (* key -> usage_day_utc                                       *)
  today,
  changed,    (* changes of the admin that the cache is still to hear of    *)
  nonce,      (* process -> cacheInvalidateNonce                            *)
  cache,      (* process -> its cachedCounts and lastCacheNonce             *)
  leases,     (* process -> key -> those of the last second                *)
  clientAt,   (* client -> where it is suspended                            *)
  memory,     (* client -> what it has read                                 *)
  counting,   (* statements that count an answer, not yet executed          *)
  changes,    (* changes made (bound)                                       *)
  answers,    (* client -> answers it got (bound)                           *)
  made,       (* key -> answers of the day (history)                        *)
  most,       (* key -> calls under way at once, at most, that day (history) *)
  uncounted,  (* key -> answers never counted, and reads of the row with    *)
              (*   yesterday's date, that day (history)                     *)
  overtaken   (* process -> its count was invalidated while it was read     *)
              (*   (history)                                                *)

rowVars == <<active, used, usedOn, today, changed, changes>>
cacheVars == <<nonce, cache, overtaken>>
pastVars == <<answers, made, most, uncounted>>
keyVars == <<rowVars, cacheVars, leases, clientAt, memory, counting, pastVars>>

Memory == [count : Nat, nonce : Nat, day : Nat, keys : SUBSET Keys, key : Keys]

KeysTypeOK ==
  /\ active \subseteq Keys /\ {today, changed, changes} \subseteq Nat
  /\ {used, usedOn, made, most, uncounted} \subseteq [Keys -> Nat]
  /\ nonce \in [Processes -> Nat] /\ overtaken \in [Processes -> BOOLEAN]
  /\ cache \in [Processes -> [nonce : Nat \cup {-1}, count : Nat \cup {-1}]]
  /\ leases \in [Processes -> [Keys -> Nat]]
  /\ clientAt \in [Clients -> {"idle", "count", "counted", "wait", "rows", "pick", "call"}]
  /\ memory \in [Clients -> Memory] /\ answers \in [Clients -> Nat]
  /\ counting \subseteq [by : Clients, key : Keys, nr : Nat]

Nothing == [count |-> 0, nonce |-> 0, day |-> 0, keys |-> {}, key |-> 1]

KeysInit ==
  /\ active \in SUBSET Keys /\ used = [k \in Keys |-> 0] /\ usedOn = [k \in Keys |-> 0]
  /\ today = 1 /\ changed = 0 /\ changes = 0
  /\ nonce = [p \in Processes |-> 0]
  /\ cache = [p \in Processes |-> [nonce |-> -1, count |-> -1]]
  /\ overtaken = [p \in Processes |-> FALSE]
  /\ leases = [p \in Processes |-> [k \in Keys |-> 0]]
  /\ clientAt = [c \in Clients |-> "idle"] /\ memory = [c \in Clients |-> Nothing]
  /\ counting = {} /\ answers = [c \in Clients |-> 0]
  /\ made = [k \in Keys |-> 0] /\ most = [k \in Keys |-> 0] /\ uncounted = [k \in Keys |-> 0]

ClientGoes(c, from, to) == clientAt[c] = from /\ clientAt' = [clientAt EXCEPT ![c] = to]

Remembers(c, what) == memory' = [memory EXCEPT ![c] = what]

-----------------------------------------------------------------------------
(* hasActiveDepositScannerExplorerPool: without a key nothing is called.   *)
(* A TRC20 probe does not ask.                                             *)
Look(c) ==
  LET kept == cache[ProcessOf[c]] IN
  /\ answers[c] < MaxAnswers
  /\ \/ /\ (kept.nonce = nonce[ProcessOf[c]] /\ kept.count > 0) \/ c \in Probes
        /\ ClientGoes(c, "idle", "wait")
     \/ kept.nonce # nonce[ProcessOf[c]] /\ ClientGoes(c, "idle", "count")
  /\ UNCHANGED <<rowVars, cacheVars, leases, memory, counting, pastVars>>

(* The query reads the rows ...                                            *)
CountKeys(c) ==
  /\ ClientGoes(c, "count", "counted")
  /\ Remembers(c, [memory[c] EXCEPT !.count = Cardinality(active), !.nonce = nonce[ProcessOf[c]]])
  /\ UNCHANGED <<rowVars, cacheVars, leases, counting, pastVars>>

(* ... and after its answer the nonce of that moment is kept with them.    *)
KeepCount(c) ==
  LET p == ProcessOf[c] IN
  /\ ClientGoes(c, "counted", IF memory[c].count > 0 THEN "wait" ELSE "idle")
  /\ cache' = [cache EXCEPT ![p] = [nonce |-> nonce[p], count |-> memory[c].count]]
  /\ overtaken' = [overtaken EXCEPT ![p] = memory[c].nonce # nonce[p]]
  /\ Remembers(c, Nothing)
  /\ UNCHANGED <<rowVars, nonce, leases, counting, pastVars>>

-----------------------------------------------------------------------------
(* listPoolCredentialsWithDailyBudgetOrdered: takes the date ...           *)
TakeDay(c) ==
  /\ ClientGoes(c, "wait", "rows") /\ Remembers(c, [Nothing EXCEPT !.day = today])
  /\ UNCHANGED <<rowVars, cacheVars, leases, counting, pastVars>>

Effective(k, day) == IF usedOn[k] = day THEN used[k] ELSE 0

(* Clients that may call with a key, and answers that are to be counted.   *)
Allowed(k) == {c \in Clients : \/ clientAt[c] = "pick" /\ k \in memory[c].keys
                               \/ clientAt[c] = "call" /\ k = memory[c].key}
Pending(k) == {n \in counting : n.key = k}

UnderWay(k) == Cardinality(Allowed(k)) + Cardinality(Pending(k))

(* ... and reads the rows.  A probe calls with the first key, a scanner    *)
(* polls again if there is none.                                           *)
ReadRows(c) ==
  LET keys == {k \in active : Effective(k, memory[c].day) < MaxPerDay} IN
  /\ IF keys = {} THEN /\ ClientGoes(c, "rows", IF c \in Probes THEN "idle" ELSE "wait")
                       /\ Remembers(c, Nothing)
     ELSE IF c \in Probes THEN /\ ClientGoes(c, "rows", "call")
                               /\ Remembers(c, [Nothing EXCEPT !.key = Min(keys)])
     ELSE ClientGoes(c, "rows", "pick") /\ Remembers(c, [Nothing EXCEPT !.keys = keys])
  /\ UNCHANGED <<rowVars, cacheVars, leases, counting, answers, made>>
  /\ most' = [k \in Keys |-> Max({most[k], UnderWay(k)'})]
  /\ uncounted' = [k \in Keys |->
       uncounted[k] + IF k \in keys /\ Effective(k, today) >= MaxPerDay THEN 1 ELSE 0]

(* acquireDepositScannerExplorerApiLease, tryTakePerSecondSlot: the first  *)
(* key that has served fewer leases within a second.                       *)
Pick(c) ==
  LET p    == ProcessOf[c]
      free == {k \in memory[c].keys : leases[p][k] < MaxPerSecond} IN
  /\ IF free = {} THEN /\ ClientGoes(c, "pick", "wait") /\ Remembers(c, Nothing)
                       /\ UNCHANGED leases
     ELSE /\ ClientGoes(c, "pick", "call") /\ Remembers(c, [Nothing EXCEPT !.key = Min(free)])
          /\ leases' = [leases EXCEPT ![p][Min(free)] = @ + 1]
  /\ UNCHANGED <<rowVars, cacheVars, counting, pastVars>>

(* A lease that is a second old. *)
SecondPasses(p, k) ==
  /\ leases[p][k] > 0 /\ leases' = [leases EXCEPT ![p][k] = @ - 1]
  /\ UNCHANGED <<rowVars, cacheVars, clientAt, memory, counting, pastVars>>

(* Two minutes without a lease, or a call that fails. *)
GiveUp(c) ==
  /\ ClientGoes(c, "wait", "idle") \/ ClientGoes(c, "call", "idle")
  /\ Remembers(c, Nothing)
  /\ UNCHANGED <<rowVars, cacheVars, leases, counting, pastVars>>

(* The answer; the client goes on while it is counted. *)
GetAnswer(c) ==
  LET k == memory[c].key IN
  /\ ClientGoes(c, "call", "idle") /\ Remembers(c, Nothing)
  /\ counting' = counting \cup {[by |-> c, key |-> k, nr |-> answers[c]]}
  /\ answers' = [answers EXCEPT ![c] = @ + 1] /\ made' = [made EXCEPT ![k] = @ + 1]
  /\ UNCHANGED <<rowVars, cacheVars, leases, most, uncounted>>

-----------------------------------------------------------------------------
\* Fault: the day is not moved on with the number.
CountDateless(n) ==
  /\ counting' = counting \ {n}
  /\ used' = [used EXCEPT ![n.key] =
       IF n.key \notin active THEN @
       ELSE IF usedOn[n.key] < today THEN 1
       ELSE IF @ < MaxPerDay THEN @ + 1 ELSE @]
  /\ uncounted' = [uncounted EXCEPT ![n.key] = IF n.key \in active THEN @ ELSE @ + 1]
  /\ UNCHANGED <<active, usedOn, today, changed, changes, cacheVars, leases, clientAt, memory,
                 answers, made, most>>

(* recordDepositScannerExplorerSuccessfulRequest, executed some time: the  *)
(* number starts again with a new day and stops at the limit.              *)
Count(n) ==
  LET k == n.key IN
  /\ counting' = counting \ {n}
  /\ IF k \in active /\ (usedOn[k] < today \/ used[k] < MaxPerDay)
       THEN /\ used' = [used EXCEPT ![k] = IF usedOn[k] < today THEN 1 ELSE @ + 1]
            /\ usedOn' = [usedOn EXCEPT ![k] = today]
       ELSE UNCHANGED <<used, usedOn>>
  /\ uncounted' = [uncounted EXCEPT ![k] = IF k \in active THEN @ ELSE @ + 1]
  /\ UNCHANGED <<active, today, changed, changes, cacheVars, leases, clientAt, memory,
                 answers, made, most>>

(* ... or failing, which is only logged.                                   *)
CountFails(n) ==
  /\ counting' = counting \ {n}
  /\ uncounted' = [uncounted EXCEPT ![n.key] = @ + 1]
  /\ UNCHANGED <<rowVars, cacheVars, leases, clientAt, memory, answers, made, most>>

NextDay ==
  /\ today < LastDay /\ today' = today + 1
  /\ made' = [k \in Keys |-> 0] /\ uncounted' = [k \in Keys |-> 0]
  /\ most' = [k \in Keys |-> UnderWay(k)]
  /\ UNCHANGED <<active, used, usedOn, changed, changes, cacheVars, leases, clientAt, memory,
                 counting, answers>>

-----------------------------------------------------------------------------
(* The admin adds a key, or switches one on or off ...                     *)
ChangeKey(k) ==
  /\ changes < MaxChanges /\ changes' = changes + 1 /\ changed' = changed + 1
  /\ active' \in {active \cup {k}, active \ {k}}
  /\ UNCHANGED <<used, usedOn, today, cacheVars, leases, clientAt, memory, counting, pastVars>>

\* Fault: the routes leave the cache alone.
InvalidateNothing ==
  /\ changed > 0 /\ changed' = changed - 1
  /\ UNCHANGED <<active, used, usedOn, today, changes, cacheVars, leases, clientAt, memory,
                 counting, pastVars>>

(* ... and invalidates the cache of the process.                           *)
Invalidate ==
  /\ changed > 0 /\ changed' = changed - 1 /\ nonce' = [nonce EXCEPT ![Api] = @ + 1]
  /\ UNCHANGED <<active, used, usedOn, today, changes, cache, overtaken, leases, clientAt,
                 memory, counting, pastVars>>

(* A process starts anew: its calls, its leases, its cache and statements  *)
(* it had not sent are gone.                                               *)
Restart(p) ==
  LET mine == {c \in Clients : ProcessOf[c] = p}
      gone(k) == {n \in Pending(k) : n.by \in mine} IN
  /\ clientAt' = [c \in Clients |-> IF c \in mine THEN "idle" ELSE clientAt[c]]
  /\ memory' = [c \in Clients |-> IF c \in mine THEN Nothing ELSE memory[c]]
  /\ counting' = {n \in counting : n.by \notin mine}
  /\ uncounted' = [k \in Keys |-> uncounted[k] + Cardinality(gone(k))]
  /\ leases' = [leases EXCEPT ![p] = [k \in Keys |-> 0]]
  /\ nonce' = [nonce EXCEPT ![p] = 0]
  /\ cache' = [cache EXCEPT ![p] = [nonce |-> -1, count |-> -1]]
  /\ overtaken' = [overtaken EXCEPT ![p] = FALSE]
  /\ changed' = IF p = Api THEN 0 ELSE changed
  /\ UNCHANGED <<active, used, usedOn, today, changes, answers, made, most>>

ClientStep(c) ==
  \/ Look(c) \/ CountKeys(c) \/ KeepCount(c) \/ TakeDay(c) \/ ReadRows(c) \/ Pick(c)
  \/ GiveUp(c) \/ GetAnswer(c)

KeysNext ==
  \/ \E c \in Clients : ClientStep(c)
  \/ \E p \in Processes : Restart(p) \/ \E k \in Keys : SecondPasses(p, k)
  \/ \E n \in counting : Count(n) \/ CountFails(n)
  \/ NextDay \/ Invalidate \/ \E k \in Keys : ChangeKey(k)

KeysSpec == KeysInit /\ [][KeysNext]_keyVars

-----------------------------------------------------------------------------
(* "Call after admin mutates explorer key rows": when the admin's changes  *)
(* are announced, the process that serves the admin counts on the keys     *)
(* there are, or asks again, unless a change was announced while it read.  *)
CacheOutdatedOnlyByOverlap ==
  cache[Api].nonce = nonce[Api] /\ changed = 0 /\ ~overtaken[Api] =>
    cache[Api].count = Cardinality(active)

(* A key's daily limit is overrun by no more answers than calls were under *)
(* way besides, or were not counted, or were allowed by a look at the row  *)
(* with yesterday's date.                                                  *)
LimitOverrunOnlyByOverlap ==
  \A k \in Keys : made[k] > 0 => made[k] < MaxPerDay + most[k] + uncounted[k]
=============================================================================
