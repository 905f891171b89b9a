------------------------- MODULE TrainingRunProofs --------------------------
(***************************************************************************)
(* Theorems about TrainingRun for any number of attempts, steps, tries and *)
(* lost answers, with attempts that go on after they are given up.  What   *)
(* is said of checkpoints holds whatever threads report; what is said of   *)
(* the history needs the training thread to be the only one that does.     *)
(***************************************************************************)
EXTENDS TrainingRunInv, WellFoundedInduction, TLAPS

Row        == [step : 1 .. MaxSteps, status : {"PENDING", "READY", "FAILED"}]
Call(L, D) == [at : Calls, then : {"free", "register", "close"}, batch : SUBSET L,
               tries : 0 .. Retries, row : {None} \cup D]

LEMMA CallFields ==
  ASSUME NEW L, NEW D, NEW c \in Call(L, D)
  PROVE  /\ c = [at |-> c.at, then |-> c.then, batch |-> c.batch, tries |-> c.tries, row |-> c.row]
         /\ c.at \in Calls /\ c.then \in {"free", "register", "close"} /\ c.batch \subseteq L
         /\ c.tries \in 0 .. Retries /\ c.row \in {None} \cup D
BY DEF Call

LEMMA CallGrows ==
  ASSUME NEW L, NEW M, L \subseteq M, NEW D, NEW E, D \subseteq E, NEW c \in Call(L, D)
  PROVE  c \in Call(M, E)
BY DEF Call

LEMMA NatConstants ==
  /\ MaxAttempts \in Nat \ {0} /\ MaxSteps \in Nat \ {0} /\ BatchSize \in Nat \ {0}
  /\ Retries \in Nat /\ MaxLost \in Nat /\ Main \in Threads /\ DOMAIN Name = 1 .. MaxSteps
BY TrainingRunAssumption

(* Records of a thread that has just begun one thing *)
LEMMA FreshFields ==
  ASSUME NEW a, NEW then, NEW row
  PROVE  /\ [Free EXCEPT !.at = a] =
              [at |-> a, then |-> "free", batch |-> {}, tries |-> 0, row |-> None]
         /\ [Free EXCEPT !.at = a, !.then = then] =
              [at |-> a, then |-> then, batch |-> {}, tries |-> 0, row |-> None]
         /\ [Free EXCEPT !.at = a, !.row = row] =
              [at |-> a, then |-> "free", batch |-> {}, tries |-> 0, row |-> row]
<1> DEFINE one == [Free EXCEPT !.at = a]
<1>1. one = [at |-> a, then |-> "free", batch |-> {}, tries |-> 0, row |-> None]
  BY DEF Free
<1>2. /\ [Free EXCEPT !.at = a, !.then = then] = [one EXCEPT !.then = then]
      /\ [Free EXCEPT !.at = a, !.row = row] = [one EXCEPT !.row = row]
  OBVIOUS
<1> HIDE DEF one
<1>3. /\ [one EXCEPT !.then = then] =
           [at |-> a, then |-> then, batch |-> {}, tries |-> 0, row |-> None]
      /\ [one EXCEPT !.row = row] =
           [at |-> a, then |-> "free", batch |-> {}, tries |-> 0, row |-> row]
  BY <1>1
<1> QED BY <1>1, <1>2, <1>3 DEF one

LEMMA FreshCall ==
  ASSUME NEW L, NEW D, NEW a \in Calls, NEW then \in {"free", "register", "close"},
         NEW row \in {None} \cup D
  PROVE  [at |-> a, then |-> then, batch |-> {}, tries |-> 0, row |-> row] \in Call(L, D)
<1>1. {} \in SUBSET L /\ 0 \in 0 .. Retries
  BY NatConstants
<1> QED BY <1>1 DEF Call

LEMMA TypeParts ==
  ASSUME TypeOK
  PROVE  /\ call \in [Threads -> Call(logged, DOMAIN artifacts)]
         /\ artifacts \in Seq(Row) /\ Len(artifacts) \in Nat /\ DOMAIN artifacts = 1 .. Len(artifacts)
         /\ \A r \in DOMAIN artifacts : /\ artifacts[r] \in Row /\ artifacts[r].step \in 1 .. MaxSteps
                                        /\ r \in Nat /\ r # None
                                        /\ Key(r) \in Keys
<1>1. call \in [Threads -> Call(logged, DOMAIN artifacts)] /\ artifacts \in Seq(Row)
  BY DEF TypeOK, Call, Row
<1>2. Len(artifacts) \in Nat /\ DOMAIN artifacts = 1 .. Len(artifacts)
  BY <1>1
<1>3. ASSUME NEW r \in DOMAIN artifacts
      PROVE  /\ artifacts[r] \in Row /\ artifacts[r].step \in 1 .. MaxSteps
             /\ r \in Nat /\ r # None /\ Key(r) \in Keys
  <2>1. artifacts[r] \in Row
    BY <1>1, <1>2, <1>3
  <2>2. artifacts[r].step \in 1 .. MaxSteps
    BY <2>1 DEF Row
  <2> QED BY <1>2, <1>3, <2>1, <2>2, NatConstants DEF None, Key, Keys
<1> QED BY <1>1, <1>2, <1>3

----------------------------------------------------------------------------
(* What a request can change *)

(* The rows an answered request leaves: none goes or changes its step, a   *)
(* confirmed one stays so, and only the row being confirmed becomes so     *)
RowsStep(c) ==
  /\ artifacts' \in Seq(Row) /\ DOMAIN artifacts \subseteq DOMAIN artifacts'
  /\ \A r \in DOMAIN artifacts : /\ artifacts'[r].step = artifacts[r].step
                                 /\ Ready(r) => Ready(r)'
  /\ \A r \in DOMAIN artifacts' \ DOMAIN artifacts :
       artifacts'[r].step = step /\ ~Ready(r)' /\ c.at = "register"
  /\ \A r \in DOMAIN artifacts :
       Ready(r)' => Ready(r) \/ (c.at = "confirm" /\ r = c.row)

ServerStep(c) ==
  /\ c.at = "metrics"  => recorded' \in {recorded, recorded \cup c.batch}
  /\ c.at # "metrics"  => recorded' = recorded
  /\ RowsStep(c)

Keeps == UNCHANGED <<step, saved, buffer, raising, logged>>

(* Where the thread is afterwards *)
CallStep(t) ==
  LET c == call[t] IN
  \/ c.tries < Retries /\ call' = [call EXCEPT ![t].tries = @ + 1]
     /\ Keeps /\ UNCHANGED <<process, finished, dropped>>
  \/ /\ c.at = "metrics" /\ Proceed(t, c.then)
     /\ dropped' \in {dropped, dropped \cup c.batch}
     /\ c.batch \subseteq recorded' \cup dropped'
     /\ Keeps /\ UNCHANGED process
  \/ /\ c.at = "register" /\ Len(artifacts') \in DOMAIN artifacts' \ DOMAIN artifacts
     /\ call' = [call EXCEPT ![t] = [Free EXCEPT !.at = "put", !.row = Len(artifacts')]]
     /\ Keeps /\ UNCHANGED <<process, finished, dropped>>
  \/ /\ c.at = "confirm" /\ Proceed(t, "free")
     /\ Keeps /\ UNCHANGED <<process, dropped>>
  \/ /\ c.at \in {"register", "confirm", "abandon", "fetch"} /\ Goto(t, "leave") /\ raising' = TRUE
     /\ UNCHANGED <<process, step, saved, buffer, finished, logged, dropped>>
  \/ /\ c.at = "started" /\ Goto(t, IF offer = None THEN "free" ELSE "fetch")
     /\ Keeps /\ UNCHANGED <<process, finished, dropped>>
  \/ c.at = "fetch" /\ Goto(t, "download") /\ Keeps /\ UNCHANGED <<process, finished, dropped>>
  \/ c.at = "finished" /\ Ends /\ Keeps /\ UNCHANGED <<call, finished, dropped>>

LEMMA RowsUnchanged ==
  ASSUME TypeOK, UNCHANGED artifacts, NEW c PROVE RowsStep(c)
BY TypeParts DEF RowsStep, Ready

LEMMA Registered ==
  ASSUME TypeOK, NEW c, c.at = "register", step > 0,
         artifacts' = Append(artifacts, [step |-> step, status |-> "PENDING"])
  PROVE  RowsStep(c) /\ Len(artifacts') \in DOMAIN artifacts' \ DOMAIN artifacts
<1> DEFINE row == [step |-> step, status |-> "PENDING"]
<1>1. row \in Row /\ row.step = step /\ row.status # "READY"
  BY NatConstants DEF TypeOK, Row
<1>2. artifacts' = Append(artifacts, row)
  OBVIOUS
<1> HIDE DEF row
<1>3. /\ artifacts' \in Seq(Row) /\ Len(artifacts') = Len(artifacts) + 1
      /\ DOMAIN artifacts' = 1 .. Len(artifacts) + 1
      /\ \A r \in 1 .. Len(artifacts) : artifacts'[r] = artifacts[r]
      /\ artifacts'[Len(artifacts) + 1] = row
  BY <1>1, <1>2, TypeParts
<1> QED BY <1>1, <1>3, TypeParts DEF RowsStep, Ready

LEMMA OnlyMain ==
  ASSUME Shape, NEW t \in Threads, ~Reporting(call[t]) PROVE t = Main
BY DEF Shape

LEMMA UploadingRow ==
  ASSUME TypeOK, Shape, NEW t \in Threads, call[t].at \in Uploading
  PROVE  t = Main /\ call[t].row \in DOMAIN artifacts /\ artifacts[call[t].row].step = step
<1>1. t = Main
  BY OnlyMain DEF Reporting, Uploading
<1>2. call[t].row \in {None} \cup DOMAIN artifacts
  BY TypeParts, CallFields
<1> QED BY <1>1, <1>2 DEF Shape

LEMMA RegisteringStep ==
  ASSUME TypeOK, Shape, NEW t \in Threads, call[t].at = "register"
  PROVE  t = Main /\ step > 0
<1>1. t = Main
  BY OnlyMain DEF Reporting
<1> QED BY <1>1 DEF Shape, Saving

LEMMA HandledServer ==
  ASSUME TypeOK, Shape, NEW t \in Threads, Handled(call[t])
  PROVE  ServerStep(call[t])
<1> DEFINE c == call[t]
<1>1. CASE RecordMetrics(c)
  BY <1>1, RowsUnchanged DEF RecordMetrics, ServerStep
<1>2. CASE RegisterArtifact(c)
  BY <1>2, Registered, RegisteringStep DEF RegisterArtifact, ServerStep
<1>3. CASE Settle(c)
  <2>1. c.at \in {"confirm", "abandon"} /\ Pending(c.row) /\ c.row \in DOMAIN artifacts
    BY <1>3, UploadingRow DEF Settle, Handled, Accepts, Uploading
  <2> DEFINE new == [artifacts[c.row] EXCEPT !.status = IF c.at = "confirm" THEN "READY" ELSE "FAILED"]
  <2>2. new \in Row /\ new.step = artifacts[c.row].step /\ (new.status = "READY" => c.at = "confirm")
    BY <2>1, TypeParts DEF Row
  <2>3. recorded' = recorded /\ artifacts' = [artifacts EXCEPT ![c.row] = new] /\ ~Ready(c.row)
    BY <1>3, <2>1 DEF Settle, Pending, Ready
  <2> HIDE DEF new
  <2>4. artifacts' \in Seq(Row) /\ DOMAIN artifacts' = DOMAIN artifacts
    BY <2>1, <2>2, <2>3, TypeParts
  <2>5. artifacts'[c.row] = new /\ \A r \in DOMAIN artifacts \ {c.row} : artifacts'[r] = artifacts[r]
    BY <2>1, <2>3, TypeParts
  <2> QED BY <2>1, <2>2, <2>3, <2>4, <2>5 DEF RowsStep, Ready, ServerStep
<1>4. CASE ReportRun(c) \/ PresignDownload(c)
  BY <1>4, RowsUnchanged DEF ReportRun, PresignDownload, server, ServerStep
<1> QED BY <1>1, <1>2, <1>3, <1>4 DEF Handled

LEMMA ReturnedCall ==
  ASSUME TypeOK, Shape, NEW t \in Threads, Handled(call[t]), Returned(t)
  PROVE  CallStep(t)
<1> DEFINE c == call[t]
<1>1. CASE c.at = "metrics"
  <2>1. c.batch \subseteq recorded'
    BY <1>1 DEF Handled, RecordMetrics, RegisterArtifact, Settle, ReportRun, PresignDownload
  <2> QED BY <1>1, <2>1 DEF Returned, CallStep, Keeps
<1>2. CASE c.at = "register"
  <2>1. Len(artifacts') \in DOMAIN artifacts' \ DOMAIN artifacts
    BY <1>2, Registered, RegisteringStep
       DEF Handled, RecordMetrics, RegisterArtifact, Settle, ReportRun, PresignDownload
  <2> QED BY <1>2, <2>1 DEF Returned, CallStep, Keeps, run
<1>3. CASE c.at \notin {"metrics", "register"}
  BY <1>3 DEF Returned, CallStep, Keeps, run
<1> QED BY <1>1, <1>2, <1>3

LEMMA RaisedCall ==
  ASSUME NEW t \in Threads, Raised(t)
  PROVE  CallStep(t)
BY DEF Raised, Returned, CallStep, Keeps, run

LEMMA TriedCall ==
  ASSUME NEW t \in Threads, Tried(t)
  PROVE  CallStep(t)
<1>1. CASE call[t].tries < Retries
  BY <1>1 DEF Tried, CallStep, Keeps, run
<1>2. CASE ~(call[t].tries < Retries)
  BY <1>2, RaisedCall DEF Tried
<1> QED BY <1>1, <1>2

(* Whatever becomes of a request, the control plane has handled it or not, *)
(* and its thread waits, has its answer or gives up                        *)
LEMMA RequestStep ==
  ASSUME TypeOK, Shape, NEW t \in Threads, Request(t)
  PROVE  /\ ServerStep(call[t]) /\ CallStep(t) /\ call[t].at \in Requests
         /\ UNCHANGED <<attempt, state, credential, resume, offer, object, late, belated>>
         /\ lost' \in {lost, lost + 1} /\ (lost' # lost => lost < MaxLost)
<1>1. ServerStep(call[t]) \/ UNCHANGED server
  BY HandledServer DEF Request
<1>2. UNCHANGED server => ServerStep(call[t])
  BY RowsUnchanged DEF server, ServerStep
<1>3. CallStep(t)
  BY ReturnedCall, RaisedCall, TriedCall DEF Request
<1> QED BY <1>1, <1>2, <1>3 DEF Request, job, store

----------------------------------------------------------------------------
(* Where the calls are after each way to move one *)

Now(t, at, then, batch, row) ==
  /\ call'[t].at = at /\ call'[t].then = then /\ call'[t].batch = batch /\ call'[t].row = row
  /\ \A u \in Threads \ {t} : call'[u] = call[u]

LEMMA CallsGrow ==
  ASSUME TypeOK, logged \subseteq logged', DOMAIN artifacts \subseteq DOMAIN artifacts'
  PROVE  call \in [Threads -> Call(logged', DOMAIN artifacts')]
<1>1. \A c \in Call(logged, DOMAIN artifacts) : c \in Call(logged', DOMAIN artifacts')
  BY CallGrows
<1> QED BY <1>1, TypeParts

LEMMA FreshNow ==
  ASSUME NEW L, NEW D, call \in [Threads -> Call(L, D)], NEW t \in Threads, NEW a \in Calls,
         NEW then \in {"free", "register", "close"}, NEW row \in {None} \cup D
  PROVE  /\ call' = [call EXCEPT ![t] = [Free EXCEPT !.at = a]] =>
              call' \in [Threads -> Call(L, D)] /\ Now(t, a, "free", {}, None)
         /\ call' = [call EXCEPT ![t] = [Free EXCEPT !.at = a, !.then = then]] =>
              call' \in [Threads -> Call(L, D)] /\ Now(t, a, then, {}, None)
         /\ call' = [call EXCEPT ![t] = [Free EXCEPT !.at = a, !.row = row]] =>
              call' \in [Threads -> Call(L, D)] /\ Now(t, a, "free", {}, row)
<1>1. ASSUME NEW th \in {"free", "register", "close"}, NEW r \in {None} \cup D, NEW c,
             c = [at |-> a, then |-> th, batch |-> {}, tries |-> 0, row |-> r],
             call' = [call EXCEPT ![t] = c]
      PROVE  call' \in [Threads -> Call(L, D)] /\ Now(t, a, th, {}, r)
  <2>1. c \in Call(L, D)
    BY <1>1, FreshCall
  <2>2. c.at = a /\ c.then = th /\ c.batch = {} /\ c.row = r
    BY <1>1
  <2> QED BY <1>1, <2>1, <2>2 DEF Now
<1>2. None \in {None} \cup D
  OBVIOUS
<1> DEFINE one == [Free EXCEPT !.at = a]
           two == [Free EXCEPT !.at = a, !.then = then]
           three == [Free EXCEPT !.at = a, !.row = row]
<1>3. /\ one = [at |-> a, then |-> "free", batch |-> {}, tries |-> 0, row |-> None]
      /\ two = [at |-> a, then |-> then, batch |-> {}, tries |-> 0, row |-> None]
      /\ three = [at |-> a, then |-> "free", batch |-> {}, tries |-> 0, row |-> row]
  BY FreshFields
<1> HIDE DEF one, two, three
<1>4. call' = [call EXCEPT ![t] = one] =>
        call' \in [Threads -> Call(L, D)] /\ Now(t, a, "free", {}, None)
  BY <1>1, <1>2, <1>3
<1>5. call' = [call EXCEPT ![t] = two] =>
        call' \in [Threads -> Call(L, D)] /\ Now(t, a, then, {}, None)
  BY <1>1, <1>2, <1>3
<1>6. call' = [call EXCEPT ![t] = three] =>
        call' \in [Threads -> Call(L, D)] /\ Now(t, a, "free", {}, row)
  BY <1>1, <1>2, <1>3
<1> QED BY <1>4, <1>5, <1>6 DEF one, two, three

LEMMA ProceedNow ==
  ASSUME NEW L, NEW D, call \in [Threads -> Call(L, D)], NEW t \in Threads,
         NEW then \in {"free", "register", "close"}, Proceed(t, then)
  PROVE  /\ call' \in [Threads -> Call(L, D)]
         /\ Now(t, IF then = "close" THEN "finished" ELSE then, "free", {}, None)
         /\ finished' = (finished \/ then = "close")
<1>1. (IF then = "close" THEN "finished" ELSE then) \in Calls
  BY DEF Calls
<1> QED BY <1>1, FreshNow DEF Proceed

LEMMA GotoNow ==
  ASSUME NEW L, NEW D, call \in [Threads -> Call(L, D)], NEW t \in Threads, NEW a \in Calls,
         Goto(t, a)
  PROVE  /\ call' \in [Threads -> Call(L, D)]
         /\ Now(t, a, call[t].then, call[t].batch, call[t].row)
<1> DEFINE c == [call[t] EXCEPT !.at = a, !.tries = 0]
<1>1. call[t] \in Call(L, D) /\ 0 \in 0 .. Retries
  BY NatConstants
<1>2. /\ c \in Call(L, D)
      /\ c.at = a /\ c.then = call[t].then /\ c.batch = call[t].batch /\ c.row = call[t].row
  BY <1>1 DEF Call
<1>3. call' = [call EXCEPT ![t] = c]
  BY DEF Goto
<1> HIDE DEF c
<1> QED BY <1>2, <1>3 DEF Now

LEMMA WaitNow ==
  ASSUME NEW L, NEW D, call \in [Threads -> Call(L, D)], NEW t \in Threads,
         call[t].tries < Retries, call' = [call EXCEPT ![t].tries = @ + 1]
  PROVE  /\ call' \in [Threads -> Call(L, D)]
         /\ Now(t, call[t].at, call[t].then, call[t].batch, call[t].row)
<1> DEFINE c == [call[t] EXCEPT !.tries = call[t].tries + 1]
<1>1. call[t] \in Call(L, D) /\ call[t].tries + 1 \in 0 .. Retries
  BY NatConstants DEF Call
<1>2. /\ c \in Call(L, D)
      /\ c.at = call[t].at /\ c.then = call[t].then /\ c.batch = call[t].batch /\ c.row = call[t].row
  BY <1>1 DEF Call
<1>3. call' = [call EXCEPT ![t] = c]
  OBVIOUS
<1> HIDE DEF c
<1> QED BY <1>2, <1>3 DEF Now

LEMMA SentNow ==
  ASSUME NEW L, NEW D, call \in [Threads -> Call(L, D)], NEW t \in Threads, buffer \subseteq L,
         call' = [call EXCEPT ![t].at = "metrics", ![t].batch = buffer]
  PROVE  /\ call' \in [Threads -> Call(L, D)]
         /\ Now(t, "metrics", call[t].then, buffer, call[t].row)
<1> DEFINE c == [call[t] EXCEPT !.at = "metrics", !.batch = buffer]
<1>1. call[t] \in Call(L, D) /\ "metrics" \in Calls
  BY DEF Calls
<1>2. /\ c \in Call(L, D)
      /\ c.at = "metrics" /\ c.then = call[t].then /\ c.batch = buffer /\ c.row = call[t].row
  BY <1>1 DEF Call
<1>3. call' = [call EXCEPT ![t] = c]
  OBVIOUS
<1> HIDE DEF c
<1> QED BY <1>2, <1>3 DEF Now

LEMMA PutNow ==
  ASSUME NEW L, NEW D, call \in [Threads -> Call(L, D)], NEW t \in Threads, NEW a \in Calls,
         call' = [call EXCEPT ![t].at = a]
  PROVE  /\ call' \in [Threads -> Call(L, D)]
         /\ Now(t, a, call[t].then, call[t].batch, call[t].row)
<1> DEFINE c == [call[t] EXCEPT !.at = a]
<1>1. call[t] \in Call(L, D)
  OBVIOUS
<1>2. /\ c \in Call(L, D)
      /\ c.at = a /\ c.then = call[t].then /\ c.batch = call[t].batch /\ c.row = call[t].row
  BY <1>1 DEF Call
<1>3. call' = [call EXCEPT ![t] = c]
  OBVIOUS
<1> HIDE DEF c
<1> QED BY <1>2, <1>3 DEF Now

LEMMA SameNow ==
  ASSUME NEW L, NEW D, call \in [Threads -> Call(L, D)], NEW t \in Threads, call' = call
  PROVE  /\ call' \in [Threads -> Call(L, D)]
         /\ Now(t, call[t].at, call[t].then, call[t].batch, call[t].row)
BY DEF Now

(* CallStep, told by where the thread is afterwards *)
Waits(t) ==
  /\ Now(t, call[t].at, call[t].then, call[t].batch, call[t].row)
  /\ UNCHANGED <<step, saved, buffer, raising, logged, finished, dropped>>

Reports(t) ==
  LET c == call[t] IN
  /\ c.at = "metrics"
  /\ Now(t, IF c.then = "close" THEN "finished" ELSE c.then, "free", {}, None)
  /\ finished' = (finished \/ c.then = "close")
  /\ dropped' \in {dropped, dropped \cup c.batch}
  /\ c.batch \subseteq recorded' \cup dropped'
  /\ UNCHANGED <<step, saved, buffer, raising, logged>>

Registers(t) ==
  /\ call[t].at = "register" /\ Len(artifacts') \in DOMAIN artifacts' \ DOMAIN artifacts
  /\ Now(t, "put", "free", {}, Len(artifacts'))
  /\ UNCHANGED <<step, saved, buffer, raising, logged, finished, dropped>>

Confirms(t) ==
  /\ call[t].at = "confirm" /\ Now(t, "free", "free", {}, None)
  /\ UNCHANGED <<step, saved, buffer, raising, logged, finished, dropped>>

Leaves(t) ==
  /\ call[t].at \in {"register", "confirm", "abandon", "fetch"}
  /\ Now(t, "leave", call[t].then, call[t].batch, call[t].row)
  /\ raising' = TRUE
  /\ UNCHANGED <<step, saved, buffer, logged, finished, dropped>>

Starts(t) ==
  /\ \/ call[t].at = "started"
        /\ Now(t, IF offer = None THEN "free" ELSE "fetch", call[t].then, call[t].batch, call[t].row)
     \/ call[t].at = "fetch" /\ Now(t, "download", call[t].then, call[t].batch, call[t].row)
  /\ UNCHANGED <<step, saved, buffer, raising, logged, finished, dropped>>

LEMMA CallStepNow ==
  ASSUME TypeOK, NEW t \in Threads, CallStep(t), RowsStep(call[t])
  PROVE  /\ call' \in [Threads -> Call(logged', DOMAIN artifacts')]
         /\ process' \in {"running", "failed", "succeeded"}
         /\ Waits(t) \/ Reports(t) \/ Registers(t) \/ Confirms(t) \/ Leaves(t) \/ Starts(t)
<1> DEFINE c == call[t]
           Goal == /\ call' \in [Threads -> Call(logged', DOMAIN artifacts')]
                   /\ process' \in {"running", "failed", "succeeded"}
                   /\ Waits(t) \/ Reports(t) \/ Registers(t) \/ Confirms(t) \/ Leaves(t) \/ Starts(t)
<1>1. logged' = logged /\ process \in {"running", "failed", "succeeded"}
  BY DEF CallStep, Keeps, TypeOK
<1>2. call \in [Threads -> Call(logged', DOMAIN artifacts')]
  BY <1>1, CallsGrow DEF RowsStep
<1>3. c \in Call(logged', DOMAIN artifacts')
  BY <1>2
<1>4. c.then \in {"free", "register", "close"}
  BY <1>3, CallFields
<1>5. CASE c.tries < Retries /\ call' = [call EXCEPT ![t].tries = @ + 1]
           /\ Keeps /\ UNCHANGED <<process, finished, dropped>>
  BY <1>1, <1>2, <1>5, WaitNow DEF Waits, Keeps
<1>6. CASE /\ c.at = "metrics" /\ Proceed(t, c.then)
           /\ dropped' \in {dropped, dropped \cup c.batch}
           /\ c.batch \subseteq recorded' \cup dropped'
           /\ Keeps /\ UNCHANGED process
  BY <1>1, <1>2, <1>4, <1>6, ProceedNow DEF Reports, Keeps
<1>7. CASE /\ c.at = "register" /\ Len(artifacts') \in DOMAIN artifacts' \ DOMAIN artifacts
           /\ call' = [call EXCEPT ![t] = [Free EXCEPT !.at = "put", !.row = Len(artifacts')]]
           /\ Keeps /\ UNCHANGED <<process, finished, dropped>>
  <2>1. "put" \in Calls /\ Len(artifacts') \in {None} \cup DOMAIN artifacts'
    BY <1>7 DEF Calls
  <2> QED BY <1>1, <1>2, <1>7, <2>1, FreshNow DEF Registers, Keeps
<1>8. CASE c.at = "confirm" /\ Proceed(t, "free") /\ Keeps /\ UNCHANGED <<process, dropped>>
  <2>1. finished \in BOOLEAN
    BY DEF TypeOK
  <2> QED BY <1>1, <1>2, <1>8, <2>1, ProceedNow DEF Confirms, Keeps
<1>9. CASE /\ c.at \in {"register", "confirm", "abandon", "fetch"} /\ Goto(t, "leave") /\ raising' = TRUE
           /\ UNCHANGED <<process, step, saved, buffer, finished, logged, dropped>>
  <2>1. "leave" \in Calls
    BY DEF Calls
  <2> QED BY <1>1, <1>2, <1>9, <2>1, GotoNow DEF Leaves
<1>10. CASE /\ c.at = "started" /\ Goto(t, IF offer = None THEN "free" ELSE "fetch")
            /\ Keeps /\ UNCHANGED <<process, finished, dropped>>
  <2>1. (IF offer = None THEN "free" ELSE "fetch") \in Calls
    BY DEF Calls
  <2> QED BY <1>1, <1>2, <1>10, <2>1, GotoNow DEF Starts, Keeps
<1>11. CASE c.at = "fetch" /\ Goto(t, "download") /\ Keeps /\ UNCHANGED <<process, finished, dropped>>
  <2>1. "download" \in Calls
    BY DEF Calls
  <2> QED BY <1>1, <1>2, <1>11, <2>1, GotoNow DEF Starts, Keeps
<1>12. CASE c.at = "finished" /\ Ends /\ Keeps /\ UNCHANGED <<call, finished, dropped>>
  <2>1. process' \in {"running", "failed", "succeeded"}
    BY <1>12 DEF Ends
  <2> QED BY <1>1, <1>2, <1>12, <2>1, SameNow DEF Waits, Keeps
<1> QED BY <1>5, <1>6, <1>7, <1>8, <1>9, <1>10, <1>11, <1>12 DEF CallStep

----------------------------------------------------------------------------
(* The offer: the row of the greatest step among the confirmed ones *)

LEMMA LeastNat ==
  ASSUME NEW S, S \subseteq Nat, S # {}
  PROVE  \E m \in S : \A k \in S : m <= k
<1>1. PICK m \in S : \A k \in S : ~(<<k, m>> \in OpToRel(<, Nat))
  BY NatLessThanWellFounded, WFMin
<1>2. ASSUME NEW k \in S PROVE m <= k
  <2>1. ~(k < m)
    BY <1>1 DEF OpToRel
  <2> QED BY <2>1
<1> QED BY <1>2

LEMMA NewestOf ==
  ASSUME TypeOK, NEW rows, rows \subseteq DOMAIN artifacts, rows # {}
  PROVE  Newest(rows) \in rows /\ \A q \in rows : artifacts[q].step <= artifacts[Newest(rows)].step
<1> DEFINE Short(r) == MaxSteps - artifacts[r].step
           Old(r)   == Len(artifacts) - r
           last     == {r \in rows : \A q \in rows : artifacts[q].step <= artifacts[r].step}
           Best(r)  == \A q \in rows : \/ artifacts[r].step > artifacts[q].step
                                       \/ artifacts[r].step = artifacts[q].step /\ r >= q
<1>1. \A r \in rows : Short(r) \in Nat /\ Old(r) \in Nat /\ r \in Nat /\ artifacts[r].step \in Nat
  BY TypeParts, NatConstants
<1>2. \E r \in rows : \A q \in rows : Short(r) <= Short(q)
  <2>1. {Short(r) : r \in rows} \subseteq Nat /\ {Short(r) : r \in rows} # {}
    BY <1>1
  <2>2. PICK m \in {Short(r) : r \in rows} : \A k \in {Short(r) : r \in rows} : m <= k
    BY <2>1, LeastNat
  <2> HIDE DEF Short
  <2> QED BY <2>2
<1>3. last \subseteq rows /\ last # {}
  <2>1. PICK r \in rows : \A q \in rows : Short(r) <= Short(q)
    BY <1>2
  <2>2. ASSUME NEW q \in rows PROVE artifacts[q].step <= artifacts[r].step
    <3>1. MaxSteps - artifacts[r].step <= MaxSteps - artifacts[q].step
      BY <2>1
    <3>2. artifacts[r].step \in Nat /\ artifacts[q].step \in Nat /\ MaxSteps \in Nat
      BY <1>1, NatConstants
    <3> QED BY <3>1, <3>2
  <2> QED BY <2>2
<1>4. \E r \in last : \A q \in last : Old(r) <= Old(q)
  <2>1. {Old(r) : r \in last} \subseteq Nat /\ {Old(r) : r \in last} # {}
    BY <1>1, <1>3
  <2>2. PICK m \in {Old(r) : r \in last} : \A k \in {Old(r) : r \in last} : m <= k
    BY <2>1, LeastNat
  <2> HIDE DEF Old, last
  <2> QED BY <2>2
<1>5. PICK r \in last : \A q \in last : Old(r) <= Old(q)
  BY <1>4
<1>6. ASSUME NEW q \in rows
      PROVE  artifacts[r].step > artifacts[q].step \/ (artifacts[r].step = artifacts[q].step /\ r >= q)
  <2>1. artifacts[q].step <= artifacts[r].step /\ r \in rows
    BY <1>5
  <2>2. CASE artifacts[q].step = artifacts[r].step
    <3>1. q \in last
      BY <1>5, <2>2
    <3> QED BY <1>1, <1>5, <2>1, <2>2, <3>1, TypeParts
  <2>3. CASE artifacts[q].step # artifacts[r].step
    BY <1>1, <2>1, <2>3
  <2> QED BY <2>2, <2>3
<1>7. Newest(rows) \in rows /\ Best(Newest(rows))
  <2>1. \E x \in rows : Best(x)
    BY <1>3, <1>5, <1>6
  <2>2. Newest(rows) = CHOOSE x \in rows : Best(x)
    BY DEF Newest
  <2> HIDE DEF Best
  <2> QED BY <2>1, <2>2
<1>8. ASSUME NEW q \in rows PROVE artifacts[q].step <= artifacts[Newest(rows)].step
  <2> DEFINE n == Newest(rows)
  <2>1. \/ artifacts[n].step > artifacts[q].step
        \/ artifacts[n].step = artifacts[q].step /\ n >= q
    BY <1>7
  <2>2. artifacts[n].step \in Nat /\ artifacts[q].step \in Nat
    BY <1>1, <1>7
  <2> HIDE DEF n
  <2>3. artifacts[q].step <= artifacts[n].step
    BY <2>1, <2>2
  <2> QED BY <2>3 DEF n
<1> QED BY <1>7, <1>8

LEMMA OfferOf ==
  ASSUME TypeOK
  PROVE  LET o == LatestResumableCheckpoint IN
         /\ o \in {None} \cup DOMAIN artifacts
         /\ o # None => Ready(o)
         /\ \A r \in DOMAIN artifacts : Ready(r) => o # None /\ artifacts[r].step <= artifacts[o].step
<1> DEFINE ready == {r \in DOMAIN artifacts : artifacts[r].status = "READY"}
<1>1. CASE ready = {}
  BY <1>1 DEF LatestResumableCheckpoint, Ready
<1>2. CASE ready # {}
  <2>1. Newest(ready) \in ready /\ \A q \in ready : artifacts[q].step <= artifacts[Newest(ready)].step
    BY <1>2, NewestOf
  <2>2. LatestResumableCheckpoint = Newest(ready)
    BY <1>2 DEF LatestResumableCheckpoint
  <2> QED BY <2>1, <2>2, TypeParts DEF Ready
<1> QED BY <1>1, <1>2

----------------------------------------------------------------------------
(* Where the calls are after the steps of the training code *)

LEMMA LogMetricsNow ==
  ASSUME TypeOK, NEW t \in Threads, LogMetrics(t)
  PROVE  /\ call' \in [Threads -> Call(logged', DOMAIN artifacts')]
         /\ Now(t, "flush", "free", {}, None) \/ call' = call
<1>1. logged \subseteq logged' /\ artifacts' = artifacts
  BY DEF LogMetrics, server
<1>2. call \in [Threads -> Call(logged', DOMAIN artifacts')] /\ "flush" \in Calls
  BY <1>1, CallsGrow DEF Calls
<1> QED BY <1>1, <1>2, FreshNow DEF LogMetrics

LEMMA FlushNow ==
  ASSUME TypeOK, NEW t \in Threads, Flush(t)
  PROVE  /\ call' \in [Threads -> Call(logged', DOMAIN artifacts')]
         /\ \/ /\ buffer = {} /\ finished' = (finished \/ call[t].then = "close")
               /\ Now(t, IF call[t].then = "close" THEN "finished" ELSE call[t].then, "free", {}, None)
            \/ /\ buffer # {} /\ finished' = finished
               /\ Now(t, "metrics", call[t].then, buffer, call[t].row)
<1>1. logged' = logged /\ artifacts' = artifacts /\ buffer \subseteq logged
  BY DEF Flush, server, TypeOK
<1>2. call \in [Threads -> Call(logged', DOMAIN artifacts')]
  BY <1>1, CallsGrow
<1>3. call[t].then \in {"free", "register", "close"}
  BY <1>2, CallFields
<1> QED BY <1>1, <1>2, <1>3, ProceedNow, SentNow DEF Flush

LEMMA LogArtifactNow ==
  ASSUME TypeOK, NEW t \in Threads, LogArtifact(t)
  PROVE  /\ call' \in [Threads -> Call(logged', DOMAIN artifacts')]
         /\ Now(t, "flush", "register", {}, None)
<1>1. logged' = logged /\ artifacts' = artifacts
  BY DEF LogArtifact, server
<1>2. call \in [Threads -> Call(logged', DOMAIN artifacts')] /\ "flush" \in Calls
  BY <1>1, CallsGrow DEF Calls
<1> QED BY <1>2, FreshNow DEF LogArtifact

LEMMA UploadNow ==
  ASSUME TypeOK, NEW t \in Threads, Put(t)
  PROVE  /\ call' \in [Threads -> Call(logged', DOMAIN artifacts')]
         /\ \/ /\ Now(t, "confirm", call[t].then, call[t].batch, call[t].row)
               /\ object' = [object EXCEPT ![Key(call[t].row)] = call[t].row]
            \/ /\ Now(t, "abandon", call[t].then, call[t].batch, call[t].row)
               /\ object' \in {object, [object EXCEPT ![Key(call[t].row)] = call[t].row]}
<1>1. logged' = logged /\ artifacts' = artifacts
  BY DEF Put, server, run
<1>2. call \in [Threads -> Call(logged', DOMAIN artifacts')] /\ {"confirm", "abandon"} \subseteq Calls
  BY <1>1, CallsGrow DEF Calls
<1> QED BY <1>2, PutNow DEF Put

LEMMA DownloadNow ==
  ASSUME TypeOK, NEW t \in Threads, Download(t)
  PROVE  /\ call' \in [Threads -> Call(logged', DOMAIN artifacts')]
         /\ \/ Now(t, "free", call[t].then, call[t].batch, call[t].row) /\ Resumed
            \/ Now(t, "leave", call[t].then, call[t].batch, call[t].row) /\ UNCHANGED <<step, saved>>
<1>1. logged' = logged /\ artifacts' = artifacts
  BY DEF Download, server
<1>2. call \in [Threads -> Call(logged', DOMAIN artifacts')] /\ {"free", "leave"} \subseteq Calls
  BY <1>1, CallsGrow DEF Calls
<1> QED BY <1>2, GotoNow DEF Download

LEMMA FinishNow ==
  ASSUME TypeOK, NEW t \in Threads, Finish(t)
  PROVE  /\ call' \in [Threads -> Call(logged', DOMAIN artifacts')]
         /\ Now(t, "flush", "close", {}, None)
<1>1. logged' = logged /\ artifacts' = artifacts
  BY DEF Finish, server
<1>2. call \in [Threads -> Call(logged', DOMAIN artifacts')] /\ "flush" \in Calls
  BY <1>1, CallsGrow DEF Calls
<1> QED BY <1>2, FreshNow DEF Finish

LEMMA BegunNow ==
  ASSUME NEW L, NEW D
  PROVE  /\ Begun \in [Threads -> Call(L, D)]
         /\ Begun[Main] = [at |-> "started", then |-> "free", batch |-> {}, tries |-> 0, row |-> None]
         /\ \A t \in Threads \ {Main} : Reporting(Begun[t])
<1>1. {"free", "started"} \subseteq Calls /\ None \in {None} \cup D
  BY DEF Calls
<1>2. [Free EXCEPT !.at = "started"] =
        [at |-> "started", then |-> "free", batch |-> {}, tries |-> 0, row |-> None]
  BY FreshFields
<1>3. Free = [at |-> "free", then |-> "free", batch |-> {}, tries |-> 0, row |-> None]
  BY DEF Free
<1>4. Free \in Call(L, D) /\ [Free EXCEPT !.at = "started"] \in Call(L, D)
  BY <1>1, <1>2, <1>3, FreshCall
<1>5. Reporting(Free)
  BY <1>3 DEF Reporting
<1> QED BY <1>2, <1>4, <1>5, NatConstants DEF Begun

----------------------------------------------------------------------------
(* Types *)

LEMMA InitTyped == Init => TypeOK /\ Shape
<1> SUFFICES ASSUME Init PROVE TypeOK /\ Shape
  OBVIOUS
<1>1. artifacts \in Seq(Row) /\ artifacts = <<>> /\ DOMAIN artifacts = {}
  BY DEF Init
<1>2. call \in [Threads -> Call(logged, DOMAIN artifacts)]
  BY BegunNow DEF Init
<1>3. TypeOK
  <2>1. object \in [Keys -> {None} \cup DOMAIN artifacts]
    BY <1>1 DEF Init
  <2>2. /\ attempt \in 1 .. MaxAttempts /\ step \in 0 .. MaxSteps /\ saved \in 0 .. step
        /\ lost \in 0 .. MaxLost
    BY NatConstants DEF Init
  <2>3. /\ process = "running" /\ state = "scheduling" /\ {resume, offer} = {None}
        /\ {credential, finished, raising} \subseteq BOOLEAN /\ late = {} /\ belated = {}
        /\ buffer = {} /\ logged = {} /\ dropped = {} /\ recorded = {}
    BY DEF Init
  <2> QED BY <1>1, <1>2, <2>1, <2>2, <2>3 DEF TypeOK, Call, Row
<1>4. Shape
  BY <1>1, BegunNow DEF Init, Shape, Saving, Uploading
<1> QED BY <1>3, <1>4

(* What a step leaves that is not a call: the rows only grow *)
LEMMA TypeRest ==
  ASSUME TypeOK, call' \in [Threads -> Call(logged', DOMAIN artifacts')],
         artifacts' \in Seq(Row), DOMAIN artifacts \subseteq DOMAIN artifacts',
         attempt' \in 1 .. MaxAttempts, process' \in {"running", "failed", "succeeded"},
         state' \in {"scheduling", "launched", "requeued"},
         {credential', finished', raising'} \subseteq BOOLEAN,
         {resume', offer'} \subseteq {None} \cup DOMAIN artifacts,
         late' \subseteq DOMAIN artifacts', belated' \subseteq DOMAIN artifacts',
         step' \in 0 .. MaxSteps, saved' \in 0 .. step',
         logged \subseteq logged', logged' \subseteq Points, buffer' \subseteq logged',
         dropped' \subseteq logged', recorded' \subseteq logged',
         lost' \in 0 .. MaxLost, object' \in [Keys -> {None} \cup DOMAIN artifacts]
  PROVE  TypeOK'
<1>1. /\ object' \in [Keys -> {None} \cup DOMAIN artifacts']
      /\ {resume', offer'} \subseteq {None} \cup DOMAIN artifacts'
  OBVIOUS
<1> QED BY <1>1 DEF TypeOK, Call, Row

LEMMA RequestTyped ==
  ASSUME TypeOK, Shape, NEW t \in Threads, Request(t) PROVE TypeOK'
<1>1. /\ ServerStep(call[t]) /\ CallStep(t) /\ RowsStep(call[t])
      /\ UNCHANGED <<attempt, state, credential, resume, offer, object, late, belated>>
      /\ lost' \in {lost, lost + 1} /\ (lost' # lost => lost < MaxLost)
  BY RequestStep DEF ServerStep
<1>2. /\ call' \in [Threads -> Call(logged', DOMAIN artifacts')]
      /\ process' \in {"running", "failed", "succeeded"}
      /\ Waits(t) \/ Reports(t) \/ Registers(t) \/ Confirms(t) \/ Leaves(t) \/ Starts(t)
  BY <1>1, CallStepNow
<1>3. call[t].batch \subseteq logged
  BY TypeParts, CallFields
<1>4. recorded' \subseteq logged
  BY <1>1, <1>3 DEF ServerStep, TypeOK
<1>5. /\ UNCHANGED <<step, saved, buffer, logged>> /\ dropped' \subseteq logged
      /\ {finished', raising'} \subseteq BOOLEAN
  BY <1>2, <1>3 DEF Waits, Reports, Registers, Confirms, Leaves, Starts, TypeOK
<1>6. lost' \in 0 .. MaxLost
  BY <1>1, NatConstants DEF TypeOK
<1>7. artifacts' \in Seq(Row) /\ DOMAIN artifacts \subseteq DOMAIN artifacts'
  BY <1>1 DEF RowsStep
<1> QED BY <1>1, <1>2, <1>4, <1>5, <1>6, <1>7, TypeRest DEF TypeOK

LEMMA LogMetricsTyped ==
  ASSUME TypeOK, NEW t \in Threads, LogMetrics(t) PROVE TypeOK'
<1> DEFINE point == [attempt |-> attempt, by |-> t, step |-> step']
<1>1. step' \in 1 .. MaxSteps /\ step <= step'
  BY NatConstants DEF LogMetrics, NextStep, TypeOK
<1>2. point \in Points
  BY <1>1 DEF Points, TypeOK
<1>3. logged' = logged \cup {point} /\ buffer' = buffer \cup {point}
  BY DEF LogMetrics
<1>4. saved' \in 0 .. step'
  BY <1>1, NatConstants DEF LogMetrics, TypeOK
<1> HIDE DEF point
<1>5. UNCHANGED <<attempt, state, credential, resume, offer, process, artifacts, recorded, object,
                  late, belated, finished, raising, dropped, lost>>
  BY DEF LogMetrics, job, server, store
<1>6. call' \in [Threads -> Call(logged', DOMAIN artifacts')]
  BY LogMetricsNow
<1>7. /\ logged \subseteq logged' /\ logged' \subseteq Points /\ buffer' \subseteq logged'
      /\ dropped' \subseteq logged' /\ recorded' \subseteq logged'
  BY <1>2, <1>3, <1>5 DEF TypeOK
<1>8. step' \in 0 .. MaxSteps
  BY <1>1
<1>9. artifacts' \in Seq(Row) /\ DOMAIN artifacts \subseteq DOMAIN artifacts'
  BY <1>5, TypeParts
<1> QED BY <1>4, <1>5, <1>6, <1>7, <1>8, <1>9, TypeRest DEF TypeOK

LEMMA ObjectTyped ==
  ASSUME TypeOK, NEW r \in DOMAIN artifacts
  PROVE  [object EXCEPT ![Key(r)] = r] \in [Keys -> {None} \cup DOMAIN artifacts]
BY TypeParts DEF TypeOK

LEMMA CallOnlyTyped ==
  ASSUME TypeOK, Shape, NEW t \in Threads,
         Flush(t) \/ LogArtifact(t) \/ Put(t) \/ Download(t) \/ Finish(t)
  PROVE  TypeOK'
<1>1. call' \in [Threads -> Call(logged', DOMAIN artifacts')]
  BY FlushNow, LogArtifactNow, UploadNow, DownloadNow, FinishNow
<1>2. UNCHANGED <<attempt, state, credential, resume, offer, process, artifacts, recorded,
                  late, belated, logged, dropped, lost>>
  BY DEF Flush, LogArtifact, Put, Download, Finish, job, server, run, store
<1>3. buffer' \in {buffer, {}} /\ {finished', raising'} \subseteq BOOLEAN
  <2>1. Flush(t) => finished' \in BOOLEAN
    BY FlushNow DEF TypeOK
  <2> QED BY <2>1 DEF Flush, LogArtifact, Put, Download, Finish, run, TypeOK
<1>4. step' \in 0 .. MaxSteps /\ saved' \in 0 .. step'
  <2>1. CASE Download(t)
    <3>1. UNCHANGED <<step, saved>> \/ Resumed
      BY <2>1 DEF Download
    <3>2. Resumed => artifacts[offer].step \in 1 .. MaxSteps
      <4>1. t = Main /\ offer # None
        BY <2>1, OnlyMain DEF Download, At, Reporting, Shape
      <4> QED BY <4>1, TypeParts DEF TypeOK
    <3> QED BY <3>1, <3>2, NatConstants DEF Resumed, TypeOK
  <2>2. CASE LogArtifact(t)
    BY <2>2, NatConstants DEF LogArtifact, TypeOK
  <2>3. CASE Flush(t) \/ Put(t) \/ Finish(t)
    BY <2>3 DEF Flush, Put, Finish, run, TypeOK
  <2> QED BY <2>1, <2>2, <2>3
<1>5. object' \in [Keys -> {None} \cup DOMAIN artifacts]
  <2>1. CASE Put(t)
    <3>1. call[t].row \in DOMAIN artifacts
      BY <2>1, UploadingRow DEF Put, At, Uploading
    <3> QED BY <2>1, <3>1, UploadNow, ObjectTyped DEF TypeOK
  <2>2. CASE ~Put(t)
    BY <2>2 DEF Flush, LogArtifact, Download, Finish, store, TypeOK
  <2> QED BY <2>1, <2>2
<1> QED BY <1>1, <1>2, <1>3, <1>4, <1>5, TypeParts, TypeRest DEF TypeOK

LEMMA UnderwayRows ==
  ASSUME TypeOK, Shape, NEW labels, labels \subseteq {"put", "confirm"}
  PROVE  Underway(labels) \subseteq DOMAIN artifacts
<1>1. call[Main].at \in labels => call[Main].row \in DOMAIN artifacts
  BY NatConstants, UploadingRow DEF Uploading
<1> QED BY <1>1 DEF Underway

(* What happens to the job and leaves its process where it is *)
Quiet == MarkLaunched \/ Revoked \/ Killed \/ LateUpload \/ Retry

LEMMA QuietKeeps ==
  ASSUME Quiet
  PROVE  /\ UNCHANGED <<attempt, offer, step, saved, buffer, finished, raising, logged, dropped, call,
                        recorded, artifacts, lost>>
         /\ belated \subseteq belated'
         /\ state' = "requeued" /\ ~Retry => state = "requeued" /\ resume' = resume
BY DEF Quiet, MarkLaunched, Revoked, Killed, LateUpload, Retry, job, run, server, store

LEMMA QuietTyped ==
  ASSUME TypeOK, Shape, Quiet PROVE TypeOK'
<1>1. /\ UNCHANGED <<attempt, offer, step, saved, buffer, finished, raising, logged, dropped, call,
                     recorded, artifacts, lost>>
      /\ Underway({"put"}) \subseteq DOMAIN artifacts
      /\ Underway({"put", "confirm"}) \subseteq DOMAIN artifacts
  BY QuietKeeps, UnderwayRows
<1>2. /\ credential' \in BOOLEAN /\ process' \in {"running", "failed", "succeeded"}
      /\ state' \in {"scheduling", "launched", "requeued"}
  BY DEF Quiet, MarkLaunched, Revoked, Killed, LateUpload, Retry, job, TypeOK
<1>3. resume' \in {None} \cup DOMAIN artifacts
  BY OfferOf DEF Quiet, MarkLaunched, Revoked, Killed, LateUpload, Retry, job, TypeOK
<1>4. late' \subseteq DOMAIN artifacts /\ belated' \subseteq DOMAIN artifacts
  BY <1>1 DEF Quiet, MarkLaunched, Revoked, Killed, LateUpload, Retry, store, TypeOK
<1>5. object' \in [Keys -> {None} \cup DOMAIN artifacts]
  <2>1. CASE LateUpload
    <3>1. PICK r \in late : object' = [object EXCEPT ![Key(r)] = r]
      BY <2>1 DEF LateUpload
    <3>2. r \in DOMAIN artifacts
      BY DEF TypeOK
    <3> QED BY <3>1, <3>2, ObjectTyped
  <2>2. CASE ~LateUpload
    BY <2>2 DEF Quiet, MarkLaunched, Revoked, Killed, Retry, store, TypeOK
  <2> QED BY <2>1, <2>2
<1> QED BY <1>1, <1>2, <1>3, <1>4, <1>5, TypeParts, TypeRest DEF TypeOK

LEMMA NewAttemptTyped == ASSUME TypeOK, Shape, NewAttempt PROVE TypeOK'
<1>1. call' \in [Threads -> Call(logged', DOMAIN artifacts')]
  BY BegunNow DEF NewAttempt
<1>2. attempt' \in 1 .. MaxAttempts
  BY NatConstants DEF NewAttempt, TypeOK, Shape
<1>3. /\ process' = "running" /\ state' = "scheduling" /\ credential' = TRUE
      /\ step' = 0 /\ saved' = 0 /\ buffer' = {} /\ finished' = FALSE /\ raising' = FALSE
      /\ offer' = resume /\ late' = late \cup Underway({"put"})
      /\ UNCHANGED <<resume, logged, dropped, recorded, artifacts, object, belated, lost>>
  BY DEF NewAttempt, server
<1>4. step' \in 0 .. MaxSteps /\ saved' \in 0 .. step'
  BY <1>3, NatConstants
<1>5. Underway({"put"}) \subseteq DOMAIN artifacts
  BY UnderwayRows
<1> QED BY <1>1, <1>2, <1>3, <1>4, <1>5, TypeParts, TypeRest DEF TypeOK

LEMMA StepTyped ==
  ASSUME TypeOK, Shape, [Next]_vars PROVE TypeOK'
<1>1. CASE Next
  BY <1>1, RequestTyped, LogMetricsTyped, CallOnlyTyped, QuietTyped, NewAttemptTyped
     DEF Next, ProcessStep, Quiet
<1>2. CASE UNCHANGED vars
  BY <1>2 DEF vars, job, run, server, store, TypeOK
<1> QED BY <1>1, <1>2

----------------------------------------------------------------------------
(* Where the main thread is *)

Threadwise(t) ==
  Request(t) \/ LogMetrics(t) \/ Flush(t) \/ LogArtifact(t) \/ Put(t) \/ Download(t) \/ Finish(t)

LEMMA ThreadJob ==
  ASSUME NEW t \in Threads, Threadwise(t)
  PROVE  UNCHANGED <<attempt, state, credential, resume, offer, late, belated>>
BY DEF Threadwise, Request, LogMetrics, Flush, LogArtifact, Put, Download, Finish, job, store

(* Another thread only reports *)
LEMMA OtherThread ==
  ASSUME TypeOK, Shape, NEW t \in Threads \ {Main}, Threadwise(t)
  PROVE  /\ Reporting(call'[t]) /\ \A u \in Threads \ {t} : call'[u] = call[u]
         /\ UNCHANGED <<artifacts, object, step, saved, process>>
<1>1. Reporting(call[t])
  BY DEF Shape
<1>2. CASE Request(t)
  <2>1. call[t].at = "metrics" /\ call[t].then = "free"
    BY <1>1, <1>2, RequestStep DEF Reporting, Requests
  <2>2. artifacts' = artifacts /\ object' = object
    BY <1>2, <2>1 DEF Request, Handled, RecordMetrics, RegisterArtifact, Settle, ReportRun,
                     PresignDownload, server, store
  <2>3. CallStep(t) /\ (Waits(t) \/ Reports(t))
    BY <1>2, <2>1, RequestStep, CallStepNow
       DEF Registers, Confirms, Leaves, Starts, ServerStep
  <2>4. process' = process
    BY <2>1, <2>3 DEF CallStep
  <2> QED BY <1>1, <2>1, <2>2, <2>3, <2>4 DEF Waits, Reports, Now, Reporting
<1>3. CASE LogMetrics(t)
  <2>1. UNCHANGED <<artifacts, object, step, saved, process>>
    BY <1>3 DEF LogMetrics, NextStep, server, store
  <2> QED BY <1>1, <1>3, <2>1, LogMetricsNow DEF Now, Reporting
<1>4. CASE Flush(t)
  <2>1. UNCHANGED <<artifacts, object, step, saved, process>> /\ call[t].at = "flush"
    BY <1>4 DEF Flush, server, store, At
  <2> QED BY <1>1, <1>4, <2>1, FlushNow DEF Now, Reporting
<1>5. CASE LogArtifact(t) \/ Finish(t)
  BY <1>5 DEF LogArtifact, Finish
<1>6. CASE Put(t) \/ Download(t)
  BY <1>1, <1>6 DEF Put, Download, At, Reporting
<1> QED BY <1>2, <1>3, <1>4, <1>5, <1>6 DEF Threadwise

LEMMA MainUntouched ==
  ASSUME UNCHANGED <<artifacts, object, step, saved, process, attempt, state, resume, offer, belated>>,
         call'[Main] = call[Main], \A t \in Threads \ {Main} : Reporting(call'[t])
  PROVE  /\ Shape => Shape'
         /\ Behind => Behind'
         /\ Offered => Offered'
         /\ HandedOver => HandedOver'
         /\ Intact => Intact'
<1>1. Shape => Shape'
  BY DEF Shape, Reporting, Saving
<1>2. Behind => Behind'
  BY DEF Behind, Reporting, Saving, Ready, Settled
<1>3. Offered => Offered'
  BY DEF Offered, Ready, Settled
<1>4. HandedOver => HandedOver'
  BY DEF HandedOver
<1>5. Intact => Intact'
  BY DEF Intact, Ready, Key, Stored
<1> QED BY <1>1, <1>2, <1>3, <1>4, <1>5

LEMMA OtherKeeps ==
  ASSUME TypeOK, Shape, NEW t \in Threads \ {Main}, Threadwise(t)
  PROVE  /\ Shape' /\ (Behind => Behind') /\ (Offered => Offered')
         /\ (HandedOver => HandedOver') /\ (Intact => Intact')
<1>1. /\ Main \in Threads \ {t} /\ Reporting(call'[t])
      /\ \A u \in Threads \ {t} : call'[u] = call[u]
      /\ UNCHANGED <<artifacts, object, step, saved, process>>
  BY NatConstants, OtherThread
<1>2. call'[Main] = call[Main] /\ \A u \in Threads \ {Main} : Reporting(call'[u])
  BY <1>1 DEF Shape
<1>3. UNCHANGED <<attempt, state, resume, offer, belated>>
  BY ThreadJob
<1> QED BY <1>1, <1>2, <1>3, MainUntouched

(* The parts of Shape after a step of the main thread *)
LEMMA ShapeOf ==
  ASSUME Shape, NEW at, NEW then, NEW batch, NEW row, Now(Main, at, then, batch, row),
         UNCHANGED <<attempt, state>>,
         at \notin {"flush", "metrics"} => then = "free",
         at \in {"fetch", "download"} => offer' # None,
         (at \in {"flush", "metrics"} /\ then = "register") \/ at \in {"register"} \cup Uploading =>
           saved' = step' /\ step' > 0,
         at \in Uploading => row # None /\ artifacts'[row].step = step'
  PROVE  Shape'
<1>1. \A t \in Threads \ {Main} : Reporting(call'[t])
  BY DEF Shape, Now
<1> QED BY <1>1 DEF Shape, Saving, Now, Reporting

LEMMA RequestShape ==
  ASSUME TypeOK, Shape, Request(Main) PROVE Shape'
<1> DEFINE c == call[Main]
<1>0. Main \in Threads
  BY NatConstants
<1>1. /\ ServerStep(c) /\ CallStep(Main) /\ RowsStep(c) /\ c.at \in Requests
      /\ UNCHANGED <<offer, attempt, state>>
  BY <1>0, RequestStep DEF ServerStep
<1>2. /\ c.at \notin {"flush", "metrics"} => c.then = "free"
      /\ c.at \in {"fetch", "download"} => offer # None
      /\ (c.at \in {"flush", "metrics"} /\ c.then = "register") \/ c.at \in {"register"} \cup Uploading =>
           saved = step /\ step > 0
      /\ c.at \in Uploading => c.row # None /\ artifacts[c.row].step = step
      /\ c.then \in {"free", "register", "close"}
  BY <1>0, TypeParts, CallFields DEF Shape, Saving
<1>3. c.at \in Uploading => artifacts'[c.row].step = step
  BY <1>0, <1>1, <1>2, UploadingRow DEF RowsStep
<1>4. CASE Waits(Main)
  BY <1>1, <1>2, <1>3, <1>4, ShapeOf DEF Waits
<1>5. CASE Reports(Main)
  BY <1>1, <1>2, <1>5, ShapeOf DEF Reports, Uploading
<1>6. CASE Registers(Main)
  <2>1. Len(artifacts') # None /\ artifacts'[Len(artifacts')].step = step
    BY <1>1, <1>6, TypeParts DEF Registers, RowsStep, None
  <2> QED BY <1>1, <1>2, <1>6, <2>1, ShapeOf DEF Registers
<1>7. CASE Confirms(Main)
  BY <1>1, <1>7, ShapeOf DEF Confirms, Uploading
<1>8. CASE Leaves(Main)
  BY <1>1, <1>2, <1>8, ShapeOf DEF Leaves, Uploading
<1>9. CASE Starts(Main)
  BY <1>1, <1>2, <1>9, ShapeOf DEF Starts, Uploading
<1> QED BY <1>0, <1>1, <1>4, <1>5, <1>6, <1>7, <1>8, <1>9, CallStepNow

LEMMA StepShape ==
  ASSUME TypeOK, Shape, [Next]_vars PROVE Shape'
<1>0. Main \in Threads
  BY NatConstants
<1>1. ASSUME NEW t \in Threads \ {Main}, Threadwise(t) PROVE Shape'
  BY <1>1, OtherKeeps
<1>a. LogMetrics(Main) \/ Flush(Main) \/ LogArtifact(Main) \/ Put(Main) \/ Download(Main) \/ Finish(Main)
        => UNCHANGED <<attempt, state, offer>>
  BY <1>0, ThreadJob DEF Threadwise
<1>2. CASE LogMetrics(Main)
  <2>1. At(Main, "free") /\ saved' = saved /\ offer' = offer /\ artifacts' = artifacts
    BY <1>2 DEF LogMetrics, job, server
  <2>2. CASE call' = call
    BY <1>2, <1>a, <2>1, <2>2 DEF Shape, At, Saving, Uploading, Reporting
  <2>3. CASE Now(Main, "flush", "free", {}, None)
    BY <1>2, <1>a, <2>1, <2>3, ShapeOf DEF Uploading
  <2> QED BY <1>0, <1>2, <2>2, <2>3, LogMetricsNow
<1>3. CASE Flush(Main)
  <2>1. call[Main].at = "flush" /\ UNCHANGED <<step, saved, offer, artifacts>>
    BY <1>3 DEF Flush, At, job, server
  <2>2. call[Main].then = "register" => saved = step /\ step > 0
    BY <2>1 DEF Shape, Saving
  <2>3. call[Main].then \in {"free", "register", "close"}
    BY <1>0, TypeParts, CallFields
  <2> QED BY <1>0, <1>3, <2>1, <2>2, <2>3, FlushNow, <1>a, ShapeOf DEF Uploading
<1>4. CASE LogArtifact(Main)
  <2>1. saved' = step' /\ step' > 0
    BY <1>4 DEF LogArtifact, TypeOK
  <2> QED BY <1>0, <1>4, <2>1, LogArtifactNow, <1>a, ShapeOf DEF Uploading
<1>5. CASE Put(Main)
  <2>1. call[Main].at = "put" /\ UNCHANGED <<step, saved, offer, artifacts>>
    BY <1>5 DEF Put, At, job, server, run
  <2>2. /\ call[Main].then = "free" /\ saved = step /\ step > 0
        /\ call[Main].row # None /\ artifacts[call[Main].row].step = step
    BY <2>1 DEF Shape, Saving, Uploading
  <2> QED BY <1>0, <1>5, <2>1, <2>2, UploadNow, <1>a, ShapeOf
<1>6. CASE Download(Main)
  <2>1. call[Main].then = "free"
    BY <1>6 DEF Download, At, Shape
  <2> QED BY <1>0, <1>6, <2>1, DownloadNow, <1>a, ShapeOf DEF Uploading
<1>7. CASE Finish(Main)
  BY <1>0, <1>7, FinishNow, <1>a, ShapeOf DEF Uploading
<1>8. CASE Quiet
  <2>1. /\ UNCHANGED <<attempt, offer, step, saved, call, artifacts>>
        /\ state' = "requeued" /\ ~Retry => state = "requeued"
    BY <1>8, QuietKeeps
  <2>2. Retry => attempt < MaxAttempts
    BY DEF Retry
  <2> QED BY <2>1, <2>2 DEF Shape, Reporting, Saving
<1>9. CASE NewAttempt
  <2>1. call' = Begun /\ state' = "scheduling"
    BY <1>9 DEF NewAttempt
  <2>2. call'[Main].at = "started" /\ call'[Main].then = "free"
    BY <2>1, BegunNow
  <2>3. \A t \in Threads \ {Main} : Reporting(call'[t])
    BY <2>1, BegunNow
  <2> QED BY <2>1, <2>2, <2>3 DEF Shape, Saving, Uploading, Reporting
<1>10. CASE UNCHANGED vars
  BY <1>10 DEF vars, job, run, server, Shape, Reporting, Saving
<1> QED BY <1>1, <1>2, <1>3, <1>4, <1>5, <1>6, <1>7, <1>8, <1>9, <1>10, <1>0, RequestShape
        DEF Next, ProcessStep, Threadwise, Quiet

----------------------------------------------------------------------------
(* How far checkpoints confirmed in time may be *)

LEMMA StaysSettled ==
  ASSUME artifacts' = artifacts, belated \subseteq belated', NEW r, Settled(r)' PROVE Settled(r)
BY DEF Settled, Ready

LEMMA BehindOf ==
  ASSUME NEW at, NEW then, NEW batch, NEW row, Now(Main, at, then, batch, row),
         \A r \in DOMAIN artifacts' : Settled(r)' =>
           /\ at \in Starting => offer' # None /\ artifacts'[r].step <= artifacts'[offer'].step
           /\ at \in {"free", "flush", "metrics"} /\ then = "free" => artifacts'[r].step <= saved'
           /\ (at \in {"flush", "metrics"} /\ then = "register") \/ at \in {"register"} \cup Uploading =>
                artifacts'[r].step < saved' \/ (at = "confirm" /\ r = row)
  PROVE  Behind'
BY DEF Behind, Now, Reporting, Saving

LEMMA RequestBehind ==
  ASSUME TypeOK, Shape, Behind, Request(Main) PROVE Behind'
<1> DEFINE c == call[Main]
<1>0. Main \in Threads
  BY NatConstants
<1>1. RowsStep(c) /\ CallStep(Main) /\ offer' = offer /\ belated' = belated /\ c.at \in Requests
  BY <1>0, RequestStep DEF ServerStep
<1>2. saved' = saved
  BY <1>1 DEF CallStep, Keeps
<1>3. c.then \in {"free", "register", "close"} /\ (c.at \notin {"flush", "metrics"} => c.then = "free")
  BY <1>0, TypeParts, CallFields DEF Shape
<1>4. ASSUME NEW r \in DOMAIN artifacts', Settled(r)'
      PROVE  /\ r \in DOMAIN artifacts /\ artifacts'[r].step = artifacts[r].step
             /\ Settled(r) \/ (c.at = "confirm" /\ r = c.row)
  BY <1>1, <1>4 DEF RowsStep, Settled, Ready
<1>5. ASSUME NEW r \in DOMAIN artifacts', Settled(r)'
      PROVE  /\ c.at \in Starting => offer' # None /\ artifacts'[r].step <= artifacts'[offer'].step
             /\ c.at = "metrics" /\ c.then = "free" => artifacts'[r].step <= saved'
             /\ (c.at = "metrics" /\ c.then = "register") \/ c.at \in {"register"} \cup Uploading =>
                  artifacts'[r].step < saved' \/ (c.at = "confirm" /\ r = c.row)
             /\ c.at = "confirm" => artifacts'[r].step <= saved'
  <2>1. c.at \in Starting => Settled(r)
    BY <1>4, <1>5 DEF Starting
  <2>2. offer \in DOMAIN artifacts => artifacts'[offer].step = artifacts[offer].step
    BY <1>1 DEF RowsStep
  <2>3. c.at = "confirm" => artifacts[c.row].step = saved /\ saved \in Nat
    BY <1>0, NatConstants, UploadingRow DEF Uploading, Shape, Saving, TypeOK
  <2>4. artifacts[r].step \in Nat /\ saved \in Nat
    BY <1>4, <1>5, TypeParts, NatConstants DEF TypeOK
  <2>5. c.at \in Starting => offer # None /\ artifacts[r].step <= artifacts[offer].step
    BY <1>4, <1>5, <2>1 DEF Behind
  <2>6. c.at = "metrics" /\ c.then = "free" => artifacts[r].step <= saved
    BY <1>4, <1>5 DEF Behind, Reporting
  <2>7. (c.at = "metrics" /\ c.then = "register") \/ c.at \in {"register"} \cup Uploading =>
          artifacts[r].step < saved \/ (c.at = "confirm" /\ r = c.row)
    BY <1>4, <1>5 DEF Behind, Saving, Uploading
  <2>8. offer # None => offer \in DOMAIN artifacts
    BY DEF TypeOK
  <2> QED BY <1>1, <1>2, <1>4, <1>5, <2>2, <2>3, <2>4, <2>5, <2>6, <2>7, <2>8 DEF Uploading
<1>6. CASE Waits(Main)
  <2>1. c.at \notin {"free", "flush"}
    BY <1>1 DEF Requests
  <2> QED BY <1>5, <1>6, <2>1, BehindOf DEF Waits
<1>7. CASE Reports(Main)
  BY <1>3, <1>5, <1>7, BehindOf DEF Reports, Uploading, Starting
<1>8. CASE Registers(Main)
  BY <1>5, <1>8, BehindOf DEF Registers, Uploading, Starting
<1>9. CASE Confirms(Main)
  BY <1>5, <1>9, BehindOf DEF Confirms, Uploading, Starting
<1>10. CASE Leaves(Main)
  BY <1>10, BehindOf DEF Leaves, Uploading, Starting
<1>11. CASE Starts(Main)
  <2>1. c.at \in Starting
    BY <1>11 DEF Starts, Starting
  <2>2. offer = None => \A r \in DOMAIN artifacts' : ~Settled(r)'
    BY <1>1, <1>5, <2>1
  <2> QED BY <1>5, <1>11, <2>1, <2>2, BehindOf DEF Starts, Uploading, Starting
<1> QED BY <1>0, <1>1, <1>6, <1>7, <1>8, <1>9, <1>10, <1>11, CallStepNow

LEMMA StepBehind ==
  ASSUME TypeOK, Shape, Offered, Behind, [Next]_vars PROVE Behind'
<1>0. Main \in Threads
  BY NatConstants
<1>1. ASSUME NEW t \in Threads \ {Main}, Threadwise(t) PROVE Behind'
  BY <1>1, OtherKeeps
<1>a. LogMetrics(Main) \/ Flush(Main) \/ LogArtifact(Main) \/ Put(Main) \/ Download(Main) \/ Finish(Main)
        => UNCHANGED <<belated, offer>>
  BY <1>0, ThreadJob DEF Threadwise
<1>2. CASE LogMetrics(Main)
  <2>1. At(Main, "free") /\ UNCHANGED <<saved, offer, artifacts>> /\ call[Main].then = "free"
    BY <1>2 DEF LogMetrics, job, server, Shape, At
  <2>2. \A r \in DOMAIN artifacts' : Settled(r)' => artifacts'[r].step <= saved'
    BY <1>2, <1>a, <2>1, StaysSettled DEF Behind, Reporting, At
  <2>3. CASE call' = call
    BY <2>1, <2>2, <2>3 DEF Behind, At, Saving, Uploading, Reporting, Starting
  <2>4. CASE Now(Main, "flush", "free", {}, None)
    BY <2>2, <2>4, BehindOf DEF Uploading, Starting
  <2> QED BY <1>0, <1>2, <2>3, <2>4, LogMetricsNow
<1>3. CASE Flush(Main)
  <2>1. call[Main].at = "flush" /\ UNCHANGED <<step, saved, offer, artifacts>>
    BY <1>3 DEF Flush, At, job, server
  <2>2. call[Main].then \in {"free", "register", "close"}
    BY <1>0, TypeParts, CallFields
  <2>3. \A r \in DOMAIN artifacts' : Settled(r)' =>
          /\ call[Main].then = "free" => artifacts'[r].step <= saved'
          /\ call[Main].then = "register" => artifacts'[r].step < saved'
    BY <1>3, <1>a, <2>1, StaysSettled DEF Behind, Reporting, Saving
  <2> QED BY <1>0, <1>3, <2>2, <2>3, FlushNow, BehindOf DEF Uploading, Starting
<1>4. CASE LogArtifact(Main)
  <2>1. /\ At(Main, "free") /\ saved < saved' /\ artifacts' = artifacts /\ call[Main].then = "free"
        /\ saved \in Nat /\ saved' \in Nat
    BY <1>4, NatConstants DEF LogArtifact, At, server, Shape, TypeOK
  <2>2. \A r \in DOMAIN artifacts : Settled(r) => artifacts[r].step <= saved
    BY <2>1 DEF Behind, Reporting, At
  <2>3. \A r \in DOMAIN artifacts' : Settled(r)' => artifacts'[r].step < saved'
    BY <1>4, <1>a, <2>1, <2>2, TypeParts, StaysSettled
  <2> QED BY <1>0, <1>4, <2>3, LogArtifactNow, BehindOf DEF Uploading, Starting
<1>5. CASE Put(Main)
  <2>1. call[Main].at = "put" /\ UNCHANGED <<saved, artifacts>> /\ call[Main].then = "free"
    BY <1>5 DEF Put, At, server, run, Shape
  <2>2. \A r \in DOMAIN artifacts' : Settled(r)' => artifacts'[r].step < saved'
    BY <1>5, <1>a, <2>1, StaysSettled DEF Behind, Saving, Uploading
  <2> QED BY <1>0, <1>5, <2>2, UploadNow, BehindOf DEF Starting
<1>6. CASE Download(Main)
  <2>1. call[Main].then = "free" /\ UNCHANGED <<offer, artifacts>>
    BY <1>6 DEF Download, At, Shape, job, server
  <2>2. \A r \in DOMAIN artifacts' : Settled(r)' => artifacts'[r].step <= artifacts[offer].step
    BY <1>6, <1>a, <2>1, StaysSettled DEF Download, At, Behind, Starting
  <2>3. CASE Resumed /\ Now(Main, "free", call[Main].then, call[Main].batch, call[Main].row)
    <3>1. saved' = artifacts[offer].step
      BY <2>3 DEF Resumed
    <3> QED BY <2>2, <2>3, <3>1, BehindOf DEF Uploading, Starting
  <2>4. CASE Now(Main, "leave", call[Main].then, call[Main].batch, call[Main].row)
    BY <2>4, BehindOf DEF Uploading, Starting
  <2> QED BY <1>0, <1>6, <2>3, <2>4, DownloadNow
<1>7. CASE Finish(Main)
  BY <1>0, <1>7, FinishNow, BehindOf DEF Uploading, Starting
<1>8. CASE Quiet
  <2>1. /\ UNCHANGED <<offer, saved, call, artifacts>> /\ belated \subseteq belated'
    BY <1>8, QuietKeeps
  <2> QED BY <2>1, StaysSettled DEF Behind, Reporting, Saving
<1>9. CASE NewAttempt
  <2>1. /\ call' = Begun /\ offer' = resume /\ state = "requeued"
        /\ UNCHANGED <<artifacts, belated>>
    BY <1>9 DEF NewAttempt, server
  <2>2. call'[Main].at = "started"
    BY <2>1, BegunNow
  <2>3. \A r \in DOMAIN artifacts' : Settled(r)' =>
          offer' # None /\ artifacts'[r].step <= artifacts'[offer'].step
    BY <2>1, StaysSettled DEF Offered
  <2> QED BY <2>2, <2>3 DEF Behind, Saving, Uploading, Reporting
<1>10. CASE UNCHANGED vars
  BY <1>10 DEF vars, job, run, server, store, Behind, Settled, Ready, Reporting, Saving
<1> QED BY <1>1, <1>2, <1>3, <1>4, <1>5, <1>6, <1>7, <1>8, <1>9, <1>10, <1>0, RequestBehind
        DEF Next, ProcessStep, Threadwise, Quiet

----------------------------------------------------------------------------
(* From the decision to retry to the launch: what the attempt given up     *)
(* confirms is belated, so the row chosen is not overtaken                 *)

LEMMA OfferedOf ==
  ASSUME Offered, UNCHANGED <<state, resume, artifacts, belated>> PROVE Offered'
BY DEF Offered, Settled, Ready

LEMMA StepOffered ==
  ASSUME TypeOK, Shape, HandedOver, Offered, [Next]_vars PROVE Offered'
<1>0. Main \in Threads
  BY NatConstants
<1>1. ASSUME NEW t \in Threads \ {Main}, Threadwise(t) PROVE Offered'
  BY <1>1, OtherKeeps
<1>2. CASE Request(Main)
  <2> DEFINE c == call[Main]
  <2>1. RowsStep(c) /\ UNCHANGED <<state, resume, belated>> /\ process = "running"
    BY <1>0, <1>2, RequestStep DEF ServerStep, Request
  <2> SUFFICES ASSUME state = "requeued", NEW r \in DOMAIN artifacts', Settled(r)'
               PROVE  resume # None /\ artifacts'[r].step <= artifacts'[resume].step
    BY <2>1 DEF Offered
  <2>2. c.at = "confirm" => c.row \in belated
    BY <2>1 DEF HandedOver
  <2>3. r \in DOMAIN artifacts /\ Settled(r) /\ artifacts'[r].step = artifacts[r].step
    BY <2>1, <2>2 DEF RowsStep, Settled, Ready
  <2>4. resume # None /\ artifacts[r].step <= artifacts[resume].step
    BY <2>3 DEF Offered
  <2>5. artifacts'[resume].step = artifacts[resume].step
    BY <2>1, <2>4 DEF RowsStep, TypeOK
  <2> QED BY <2>3, <2>4, <2>5
<1>3. CASE LogMetrics(Main) \/ Flush(Main) \/ LogArtifact(Main) \/ Put(Main) \/ Download(Main) \/ Finish(Main)
  <2>1. UNCHANGED <<state, resume, belated>>
    BY <1>0, <1>3, ThreadJob DEF Threadwise
  <2>2. artifacts' = artifacts
    BY <1>3 DEF LogMetrics, Flush, LogArtifact, Put, Download, Finish, server
  <2> QED BY <2>1, <2>2, OfferedOf
<1>4. CASE Retry
  <2>1. artifacts' = artifacts /\ belated \subseteq belated' /\ resume' = LatestResumableCheckpoint
    BY <1>4 DEF Retry, server
  <2>2. ASSUME NEW r \in DOMAIN artifacts', Settled(r)'
        PROVE  resume' # None /\ artifacts'[r].step <= artifacts'[resume'].step
    <3>1. Settled(r)
      BY <2>1, <2>2, StaysSettled
    <3> QED BY <2>1, <3>1, OfferOf DEF Settled
  <2> QED BY <2>2 DEF Offered
<1>5. CASE Quiet /\ ~Retry
  <2>1. /\ artifacts' = artifacts /\ belated \subseteq belated'
        /\ state' = "requeued" => state = "requeued" /\ resume' = resume
    BY <1>5, QuietKeeps
  <2>2. ASSUME state' = "requeued", NEW r \in DOMAIN artifacts', Settled(r)'
        PROVE  resume' # None /\ artifacts'[r].step <= artifacts'[resume'].step
    <3>1. Settled(r)
      BY <2>1, <2>2, StaysSettled
    <3> QED BY <2>1, <2>2, <3>1 DEF Offered
  <2> QED BY <2>2 DEF Offered
<1>6. CASE NewAttempt
  BY <1>6 DEF NewAttempt, Offered
<1>7. CASE UNCHANGED vars
  BY <1>7, OfferedOf DEF vars, job, server, store
<1> QED BY <1>1, <1>2, <1>3, <1>4, <1>5, <1>6, <1>7, <1>0
        DEF Next, ProcessStep, Threadwise, Quiet

(* A job that waits for its next attempt takes no new artifact *)
LEMMA RequeuedRegisters ==
  ASSUME NEW t \in Threads, Request(t), state = "requeued", call[t].at = "register"
  PROVE  artifacts' = artifacts
BY DEF Request, Handled, Accepts, server

LEMMA HandedOverOf ==
  ASSUME HandedOver, state' = "requeued" => state = "requeued",
         process' = "running" => process = "running", belated \subseteq belated',
         call'[Main].at \in {"put", "confirm"} =>
           call[Main].at \in {"put", "confirm"} /\ call'[Main].row = call[Main].row
  PROVE  HandedOver'
BY DEF HandedOver

LEMMA StepHandedOver ==
  ASSUME TypeOK, Shape, HandedOver, [Next]_vars PROVE HandedOver'
<1>0. Main \in Threads
  BY NatConstants
<1>1. ASSUME NEW t \in Threads \ {Main}, Threadwise(t) PROVE HandedOver'
  BY <1>1, OtherKeeps
<1>2. Threadwise(Main) => UNCHANGED <<state, belated>> /\ process = "running"
  BY <1>0, ThreadJob
     DEF Threadwise, Request, LogMetrics, Flush, LogArtifact, Put, Download, Finish, At
<1>3. call[Main].then \in {"free", "register", "close"}
  BY <1>0, TypeParts, CallFields
<1>4. CASE Request(Main)
  <2>1. RowsStep(call[Main]) /\ CallStep(Main)
    BY <1>0, <1>4, RequestStep DEF ServerStep
  <2>2. \/ Waits(Main) \/ Reports(Main) \/ Confirms(Main) \/ Leaves(Main) \/ Starts(Main)
        \/ Registers(Main)
    BY <1>0, <2>1, CallStepNow
  <2>3. state = "requeued" => ~Registers(Main)
    BY <1>0, <1>4, RequeuedRegisters DEF Registers
  <2>4. UNCHANGED <<state, belated>> /\ process = "running"
    BY <1>2, <1>4 DEF Threadwise
  <2>5. ~Registers(Main) /\ call'[Main].at \in {"put", "confirm"} =>
          call[Main].at \in {"put", "confirm"} /\ call'[Main].row = call[Main].row
    BY <1>3, <2>2 DEF Waits, Reports, Confirms, Leaves, Starts, Now
  <2>6. CASE state = "requeued"
    BY <2>3, <2>4, <2>5, <2>6, HandedOverOf
  <2>7. CASE state # "requeued"
    BY <2>4, <2>7 DEF HandedOver
  <2> QED BY <2>6, <2>7
<1>5. CASE LogMetrics(Main) \/ Flush(Main) \/ LogArtifact(Main) \/ Put(Main) \/ Download(Main) \/ Finish(Main)
  <2>1. UNCHANGED <<state, belated>> /\ process = "running"
    BY <1>2, <1>5 DEF Threadwise
  <2>2. CASE LogMetrics(Main)
    <3>1. call'[Main].at \in {"free", "flush"}
      BY <1>0, <2>2, LogMetricsNow DEF LogMetrics, At, Now
    <3> QED BY <2>1, <3>1, HandedOverOf
  <2>3. CASE Flush(Main)
    <3>1. call'[Main].at \notin {"put", "confirm"}
      BY <1>0, <1>3, <2>3, FlushNow DEF Now
    <3> QED BY <2>1, <3>1, HandedOverOf
  <2>4. CASE LogArtifact(Main) \/ Finish(Main) \/ Download(Main)
    <3>1. call'[Main].at \notin {"put", "confirm"}
      BY <1>0, <2>4, LogArtifactNow, FinishNow, DownloadNow DEF Now
    <3> QED BY <2>1, <3>1, HandedOverOf
  <2>5. CASE Put(Main)
    <3>1. call[Main].at = "put" /\ call'[Main].row = call[Main].row
      BY <1>0, <2>5, UploadNow DEF Put, At, Now
    <3> QED BY <2>1, <3>1, HandedOverOf
  <2> QED BY <1>5, <2>2, <2>3, <2>4, <2>5
<1>6. CASE Retry
  <2>1. UNCHANGED <<process, call>> /\ belated' = belated \cup Underway({"put", "confirm"})
    BY <1>6 DEF Retry
  <2> QED BY <2>1 DEF HandedOver, Underway
<1>7. CASE Quiet /\ ~Retry
  <2>1. call' = call /\ belated \subseteq belated' /\ (state' = "requeued" => state = "requeued")
    BY <1>7, QuietKeeps
  <2>2. process' = "running" => process = "running"
    BY <1>7 DEF Quiet, MarkLaunched, Revoked, Killed, LateUpload
  <2> QED BY <2>1, <2>2, HandedOverOf
<1>8. CASE NewAttempt
  BY <1>8 DEF NewAttempt, HandedOver
<1>9. CASE UNCHANGED vars
  BY <1>9, HandedOverOf DEF vars, job, store
<1> QED BY <1>1, <1>4, <1>5, <1>6, <1>7, <1>8, <1>9, <1>0
        DEF Next, ProcessStep, Threadwise, Quiet

----------------------------------------------------------------------------
(* The bytes at the keys *)

(* An upload replaces the bytes of no row confirmed in time *)
LEMMA UploadSpares ==
  ASSUME KeysDistinct, TypeOK, Shape, Behind, call[Main].at = "put",
         NEW r \in DOMAIN artifacts, Settled(r)
  PROVE  Key(r) # Key(call[Main].row)
<1> DEFINE row == call[Main].row
<1>1. row \in DOMAIN artifacts /\ artifacts[row].step = step /\ saved = step /\ step \in Nat
  BY NatConstants, UploadingRow DEF Uploading, Shape, Saving, TypeOK
<1>2. artifacts[r].step < saved
  BY DEF Behind, Saving, Uploading
<1>3. artifacts[r].step \in 1 .. MaxSteps /\ artifacts[row].step \in 1 .. MaxSteps
  BY <1>1, TypeParts
<1>4. artifacts[r].step # artifacts[row].step
  BY <1>1, <1>2, <1>3
<1> QED BY <1>3, <1>4 DEF KeysDistinct, Key

(* What is stored for a row stays so while its key has the same bytes, or  *)
(* gets a belated attempt's                                                *)
LEMMA StaysStored ==
  ASSUME NEW r, Stored(r), belated \subseteq belated', Key(r)' = Key(r),
         object'[Key(r)] = object[Key(r)] \/ object'[Key(r)] \in belated'
  PROVE  Stored(r)'
BY DEF Stored

LEMMA IntactOf ==
  ASSUME TypeOK, Intact, artifacts' = artifacts, belated \subseteq belated',
         \A r \in DOMAIN artifacts :
           object'[Key(r)] = object[Key(r)] \/ object'[Key(r)] \in belated',
         {resume', offer'} \subseteq {resume, offer, LatestResumableCheckpoint},
         call'[Main].at = "confirm" => call[Main].at = "confirm" /\ call'[Main].row = call[Main].row,
         call[Main].at = "confirm" => call[Main].row \in DOMAIN artifacts
  PROVE  Intact'
<1>1. \A r \in DOMAIN artifacts : Key(r)' = Key(r) /\ (Ready(r)' <=> Ready(r))
  BY DEF Key, Ready
<1>2. ASSUME NEW r \in DOMAIN artifacts, Stored(r) PROVE Stored(r)'
  BY <1>1, <1>2, StaysStored
<1>3. ASSUME NEW r \in {resume', offer'}, r # None PROVE Ready(r)'
  BY <1>3, OfferOf DEF Intact, Ready
<1>4. (call[Main].at = "confirm" => Stored(call[Main].row))'
  BY <1>2 DEF Intact, Stored, Key
<1> QED BY <1>1, <1>2, <1>3, <1>4 DEF Intact

LEMMA RequestIntact ==
  ASSUME TypeOK, Shape, Intact, Request(Main) PROVE Intact'
<1> DEFINE c == call[Main]
<1>0. Main \in Threads
  BY NatConstants
<1>1. /\ RowsStep(c) /\ CallStep(Main) /\ c.at \in Requests
      /\ UNCHANGED <<resume, offer, object, belated>>
  BY <1>0, RequestStep DEF ServerStep
<1>2. ASSUME NEW r \in DOMAIN artifacts, Stored(r) PROVE Stored(r)'
  <2>1. Key(r)' = Key(r)
    BY <1>1 DEF RowsStep, Key
  <2> QED BY <1>1, <1>2, <2>1, StaysStored
<1>3. ASSUME NEW r \in DOMAIN artifacts', Ready(r)' PROVE Stored(r)'
  <2>1. r \in DOMAIN artifacts /\ (Ready(r) \/ (c.at = "confirm" /\ r = c.row))
    BY <1>1, <1>3 DEF RowsStep
  <2> QED BY <1>2, <2>1 DEF Intact
<1>4. ASSUME NEW r \in {resume', offer'}, r # None PROVE Ready(r)'
  <2>1. r \in DOMAIN artifacts /\ Ready(r)
    BY <1>1, <1>4 DEF TypeOK, Intact
  <2> QED BY <1>1, <2>1 DEF RowsStep
<1>5. call'[Main].at = "confirm" => c.at = "confirm" /\ call'[Main].row = c.row
  <2>1. c.then \in {"free", "register", "close"}
    BY <1>0, TypeParts, CallFields
  <2>2. Waits(Main) \/ Reports(Main) \/ Registers(Main) \/ Confirms(Main) \/ Leaves(Main) \/ Starts(Main)
    BY <1>0, <1>1, CallStepNow
  <2> QED BY <2>1, <2>2 DEF Waits, Reports, Registers, Confirms, Leaves, Starts, Now
<1>6. c.at = "confirm" => c.row \in DOMAIN artifacts
  BY <1>0, UploadingRow DEF Uploading
<1>7. (call[Main].at = "confirm" => Stored(call[Main].row))'
  BY <1>2, <1>5, <1>6 DEF Intact, Stored, Key
<1> QED BY <1>3, <1>4, <1>7 DEF Intact

LEMMA PutIntact ==
  ASSUME KeysDistinct, TypeOK, Shape, Behind, Intact, Put(Main) PROVE Intact'
<1> DEFINE row == call[Main].row
<1>0. Main \in Threads
  BY NatConstants
<1>1. call[Main].at = "put" /\ UNCHANGED <<resume, offer, artifacts, belated>>
  BY DEF Put, At, job, server
<1>2. row \in DOMAIN artifacts /\ Key(row) \in Keys
  BY <1>0, <1>1, UploadingRow, TypeParts DEF Uploading
<1>3. object' = object \/ object' = [object EXCEPT ![Key(row)] = row]
  BY <1>0, UploadNow
<1>4. \A r \in DOMAIN artifacts : Key(r)' = Key(r) /\ (Ready(r)' <=> Ready(r))
  BY <1>1 DEF Key, Ready
<1>5. ASSUME NEW r \in DOMAIN artifacts, Ready(r) PROVE Stored(r)'
  <2>1. CASE r \in belated
    BY <1>1, <2>1 DEF Stored
  <2>2. CASE r \notin belated
    <3>1. Key(r) # Key(row) /\ Key(r) \in Keys
      BY <1>1, <1>5, <2>2, UploadSpares, TypeParts DEF Settled
    <3>2. object'[Key(r)] = object[Key(r)] /\ Stored(r)
      BY <1>3, <1>5, <3>1 DEF TypeOK, Intact
    <3> QED BY <1>1, <1>4, <3>2, StaysStored
  <2> QED BY <2>1, <2>2
<1>6. call'[Main].at = "confirm" => call'[Main].row = row /\ object'[Key(row)] = row
  BY <1>0, <1>2, UploadNow DEF Now, TypeOK
<1>7. (call[Main].at = "confirm" => Stored(call[Main].row))'
  BY <1>2, <1>4, <1>6 DEF Stored, Key
<1>8. ASSUME NEW r \in {resume', offer'}, r # None PROVE Ready(r)'
  BY <1>1, <1>8 DEF Intact, Ready
<1> QED BY <1>1, <1>4, <1>5, <1>7, <1>8 DEF Intact

LEMMA StepIntact ==
  ASSUME KeysDistinct, TypeOK, Shape, Behind, Intact, [Next]_vars PROVE Intact'
<1>0. Main \in Threads /\ (call[Main].at = "confirm" => call[Main].row \in DOMAIN artifacts)
  BY NatConstants, UploadingRow DEF Uploading
<1>1. ASSUME NEW t \in Threads \ {Main}, Threadwise(t) PROVE Intact'
  BY <1>1, OtherKeeps
<1>2. CASE Flush(Main) \/ LogArtifact(Main) \/ Finish(Main) \/ LogMetrics(Main) \/ Download(Main)
  <2>1. UNCHANGED <<resume, offer, object, artifacts, belated>>
    BY <1>2 DEF Flush, LogArtifact, Finish, LogMetrics, Download, job, server, store
  <2>2. call'[Main].at # "confirm"
    <3>1. call[Main].then \in {"free", "register", "close"}
      BY <1>0, TypeParts, CallFields
    <3>2. CASE LogMetrics(Main)
      BY <1>0, <3>2, LogMetricsNow DEF LogMetrics, At, Now
    <3>3. CASE Flush(Main)
      BY <1>0, <3>1, <3>3, FlushNow DEF Now
    <3>4. CASE LogArtifact(Main) \/ Finish(Main) \/ Download(Main)
      BY <1>0, <3>4, LogArtifactNow, FinishNow, DownloadNow DEF Now
    <3> QED BY <1>2, <3>2, <3>3, <3>4
  <2> QED BY <1>0, <2>1, <2>2, IntactOf
<1>3. CASE Quiet /\ ~LateUpload
  <2>1. /\ UNCHANGED <<offer, call, artifacts>> /\ belated \subseteq belated'
    BY <1>3, QuietKeeps
  <2>2. object' = object /\ resume' \in {resume, LatestResumableCheckpoint}
    BY <1>3 DEF Quiet, MarkLaunched, Revoked, Killed, Retry, job, store
  <2> QED BY <1>0, <2>1, <2>2, IntactOf
<1>4. CASE LateUpload
  <2>1. PICK q \in late : object' = [object EXCEPT ![Key(q)] = q] /\ belated' = belated \cup {q}
    BY <1>4 DEF LateUpload
  <2>2. UNCHANGED <<resume, offer, call, artifacts>>
    BY <1>4 DEF LateUpload, job, server
  <2>3. ASSUME NEW r \in DOMAIN artifacts
        PROVE  object'[Key(r)] = object[Key(r)] \/ object'[Key(r)] \in belated'
    <3>1. Key(r) \in Keys
      BY TypeParts
    <3> QED BY <2>1, <3>1 DEF TypeOK
  <2>4. belated \subseteq belated'
    BY <2>1
  <2> QED BY <1>0, <2>2, <2>3, <2>4, IntactOf
<1>5. CASE NewAttempt
  <2>1. call' = Begun /\ UNCHANGED <<resume, artifacts, object, belated>> /\ offer' = resume
    BY <1>5 DEF NewAttempt, server
  <2>2. call'[Main].at = "started"
    BY <2>1, BegunNow
  <2> QED BY <1>0, <2>1, <2>2, IntactOf
<1>6. CASE UNCHANGED vars
  BY <1>0, <1>6, IntactOf DEF vars, job, server, store
<1> QED BY <1>1, <1>2, <1>3, <1>4, <1>5, <1>6, <1>0, RequestIntact, PutIntact
        DEF Next, ProcessStep, Threadwise, Quiet

----------------------------------------------------------------------------
(* The history, when the training thread is the only one that reports *)

Kept == /\ recorded \cup dropped \subseteq recorded' \cup dropped'
        /\ InHand \subseteq recorded' \cup dropped' \cup InHand'
        /\ attempt' = attempt

LEMMA ReportedOf ==
  ASSUME Reported, NEW at, NEW then, NEW batch, NEW row, Now(Main, at, then, batch, row), Kept,
         \A p \in logged' : p \in logged \/ (p.attempt = attempt /\ p \in InHand'),
         attempt \in Nat,
         at # "metrics" => batch = {},
         at \in {"metrics", "register", "finished"} \cup Uploading => buffer' = {},
         finished' => at = "finished"
  PROVE  Reported'
<1>1. ASSUME NEW p \in logged'
      PROVE  /\ p.attempt <= attempt'
             /\ p.attempt = attempt' => p \in recorded' \cup dropped' \cup InHand'
  BY <1>1 DEF Reported, Kept
<1> QED BY <1>1 DEF Reported, Now

LEMMA HistoryOf ==
  ASSUME TypeOK, History, Kept,
         \A r \in DOMAIN artifacts' :
            \/ r \in DOMAIN artifacts /\ artifacts'[r].step = artifacts[r].step
            \/ artifacts'[r].step = step /\ \A s \in 1 .. step : Covered(s),
         \/ step' = step
         \/ step' = step + 1 /\ [attempt |-> attempt, by |-> Main, step |-> step'] \in InHand'
  PROVE  History'
<1>1. ASSUME NEW s, Covered(s) PROVE Covered(s)'
  BY <1>1 DEF Covered, Kept
<1>2. ASSUME NEW r \in DOMAIN artifacts', NEW s \in 1 .. artifacts'[r].step PROVE Covered(s)'
  <2>1. Covered(s)
    BY <1>2 DEF History
  <2> QED BY <1>1, <2>1
<1>3. ASSUME NEW s \in 1 .. step'
      PROVE  Covered(s)' \/ [attempt |-> attempt', by |-> Main, step |-> s] \in InHand'
  <2>1. CASE s \in 1 .. step
    <3>1. CASE Covered(s)
      BY <1>1, <3>1
    <3>2. CASE [attempt |-> attempt, by |-> Main, step |-> s] \in InHand
      BY <3>2 DEF Kept, Covered, TypeOK
    <3> QED BY <2>1, <3>1, <3>2 DEF History
  <2>2. CASE s \notin 1 .. step
    <3>1. step' = step + 1 /\ s = step'
      BY <1>3, <2>2, NatConstants DEF TypeOK
    <3> QED BY <3>1 DEF Kept
  <2> QED BY <2>1, <2>2
<1> QED BY <1>2, <1>3 DEF History

LEMMA RequestHistory ==
  ASSUME TypeOK, Shape, History, Reported, Request(Main) PROVE History' /\ Reported'
<1> DEFINE c == call[Main]
<1>0. Main \in Threads /\ attempt \in Nat
  BY NatConstants DEF TypeOK
<1>1. /\ ServerStep(c) /\ RowsStep(c) /\ CallStep(Main) /\ attempt' = attempt /\ c.at \in Requests
  BY <1>0, RequestStep DEF ServerStep
<1>2. UNCHANGED <<buffer, step, logged>> /\ recorded \subseteq recorded' /\ dropped \subseteq dropped'
  BY <1>1 DEF CallStep, Keeps, ServerStep
<1>3. /\ c.then \in {"free", "register", "close"}
      /\ c.at # "metrics" => c.batch = {}
      /\ c.at \in {"metrics", "register", "finished"} \cup Uploading => buffer = {}
      /\ finished => c.at = "finished"
  BY <1>0, TypeParts, CallFields DEF Reported
<1>4. Waits(Main) \/ Reports(Main) \/ Registers(Main) \/ Confirms(Main) \/ Leaves(Main) \/ Starts(Main)
  BY <1>0, <1>1, CallStepNow
<1>5. Kept
  <2>1. c.batch \subseteq recorded' \cup dropped' \cup call'[Main].batch
    BY <1>3, <1>4 DEF Waits, Reports, Registers, Confirms, Leaves, Starts, Now
  <2> QED BY <1>1, <1>2, <2>1 DEF Kept, InHand
<1>6. History'
  <2>1. ASSUME NEW r \in DOMAIN artifacts'
        PROVE  \/ r \in DOMAIN artifacts /\ artifacts'[r].step = artifacts[r].step
               \/ artifacts'[r].step = step /\ \A s \in 1 .. step : Covered(s)
    <3>1. CASE r \in DOMAIN artifacts
      BY <1>1, <3>1 DEF RowsStep
    <3>2. CASE r \notin DOMAIN artifacts
      <4>1. artifacts'[r].step = step /\ c.at = "register"
        BY <1>1, <2>1, <3>2 DEF RowsStep
      <4>2. InHand = {}
        BY <1>3, <4>1 DEF InHand
      <4> QED BY <4>1, <4>2 DEF History
    <3> QED BY <3>1, <3>2
  <2> QED BY <1>2, <1>5, <2>1, HistoryOf
<1>7. Reported'
  <2>1. CASE Waits(Main)
    BY <1>0, <1>2, <1>3, <1>5, <2>1, ReportedOf DEF Waits
  <2>2. CASE Reports(Main)
    BY <1>0, <1>2, <1>3, <1>5, <2>2, ReportedOf DEF Reports, Uploading
  <2>3. CASE Registers(Main)
    BY <1>0, <1>2, <1>3, <1>5, <2>3, ReportedOf DEF Registers, Uploading
  <2>4. CASE Confirms(Main)
    BY <1>0, <1>2, <1>3, <1>5, <2>4, ReportedOf DEF Confirms, Uploading
  <2>5. CASE Leaves(Main)
    BY <1>0, <1>2, <1>3, <1>5, <2>5, ReportedOf DEF Leaves, Uploading
  <2>6. CASE Starts(Main)
    BY <1>0, <1>2, <1>3, <1>5, <2>6, ReportedOf DEF Starts, Uploading
  <2> QED BY <1>4, <2>1, <2>2, <2>3, <2>4, <2>5, <2>6
<1> QED BY <1>6, <1>7

(* The other steps of the training thread change no row *)
LEMMA CodeHistory ==
  ASSUME TypeOK, Shape, History, Reported, Threadwise(Main), ~Request(Main)
  PROVE  History' /\ Reported'
<1>0. Main \in Threads /\ attempt \in Nat
  BY NatConstants DEF TypeOK
<1>1. /\ UNCHANGED <<artifacts, recorded, attempt>>
      /\ dropped' = dropped
  BY DEF Threadwise, LogMetrics, Flush, LogArtifact, Put, Download, Finish, server, job, run
<1>2. /\ call[Main].then \in {"free", "register", "close"}
      /\ call[Main].at # "metrics" => call[Main].batch = {}
      /\ call[Main].at \in {"metrics", "register", "finished"} \cup Uploading => buffer = {}
      /\ finished => call[Main].at = "finished"
  BY <1>0, TypeParts, CallFields DEF Reported
<1>3. CASE LogMetrics(Main)
  <2> DEFINE point == [attempt |-> attempt, by |-> Main, step |-> step']
  <2>1. /\ At(Main, "free") /\ ~finished /\ finished' = finished /\ step' = step + 1
        /\ logged' = logged \cup {point} /\ buffer' = buffer \cup {point}
    BY <1>3 DEF LogMetrics, NextStep
  <2>2. call[Main].batch = {} /\ point \in InHand' /\ point.attempt = attempt
    BY <1>2, <2>1 DEF At, InHand
  <2>3. Kept
    BY <1>1, <2>1, <2>2 DEF Kept, InHand
  <2> HIDE DEF point
  <2>4. Reported'
    <3>1. CASE call' = call
      <4>1. Now(Main, "free", call[Main].then, {}, call[Main].row)
        BY <2>1, <2>2, <3>1 DEF Now, At
      <4> QED BY <1>0, <2>1, <2>2, <2>3, <4>1, ReportedOf DEF Uploading
    <3>2. CASE Now(Main, "flush", "free", {}, None)
      BY <1>0, <2>1, <2>2, <2>3, <3>2, ReportedOf DEF Uploading
    <3> QED BY <1>0, <1>3, <3>1, <3>2, LogMetricsNow
  <2>5. History'
    BY <1>1, <2>1, <2>2, <2>3, HistoryOf DEF point
  <2> QED BY <2>4, <2>5
<1>4. CASE Flush(Main)
  <2>1. call[Main].at = "flush" /\ buffer' = {} /\ logged' = logged /\ step' = step
    BY <1>4 DEF Flush, At
  <2>2. call[Main].batch = {} /\ ~finished
    BY <1>2, <2>1
  <2>3. CASE /\ buffer = {} /\ finished' = (finished \/ call[Main].then = "close")
             /\ Now(Main, IF call[Main].then = "close" THEN "finished" ELSE call[Main].then,
                    "free", {}, None)
    <3>1. Kept
      BY <1>1, <2>1, <2>2, <2>3 DEF Kept, InHand
    <3> QED BY <1>0, <1>1, <1>2, <2>1, <2>2, <2>3, <3>1, ReportedOf, HistoryOf
  <2>4. CASE /\ buffer # {} /\ finished' = finished
             /\ Now(Main, "metrics", call[Main].then, buffer, call[Main].row)
    <3>1. Kept
      BY <1>1, <2>1, <2>2, <2>4 DEF Kept, InHand, Now
    <3> QED BY <1>0, <1>1, <2>1, <2>2, <2>4, <3>1, ReportedOf, HistoryOf
  <2> QED BY <1>0, <1>4, <2>3, <2>4, FlushNow
<1>5. CASE LogArtifact(Main)
  <2>1. At(Main, "free") /\ UNCHANGED <<buffer, finished, step, logged>>
    BY <1>5 DEF LogArtifact
  <2>2. Now(Main, "flush", "register", {}, None) /\ call[Main].batch = {} /\ ~finished
    BY <1>0, <1>2, <1>5, <2>1, LogArtifactNow DEF At
  <2>3. Kept
    BY <1>1, <2>1, <2>2 DEF Kept, InHand
  <2> QED BY <1>0, <1>1, <2>1, <2>2, <2>3, ReportedOf, HistoryOf DEF Uploading
<1>6. CASE Put(Main)
  <2>1. call[Main].at = "put" /\ UNCHANGED <<buffer, finished, step, logged>>
    BY <1>6 DEF Put, At, run
  <2>2. call[Main].batch = {} /\ ~finished /\ buffer = {}
    BY <1>2, <2>1 DEF Uploading
  <2>3. \E at \in {"confirm", "abandon"} : Now(Main, at, call[Main].then, {}, call[Main].row)
    BY <1>0, <1>6, <2>2, UploadNow
  <2>4. Kept
    BY <1>1, <2>1, <2>2 DEF Kept, InHand
  <2> QED BY <1>0, <1>1, <2>1, <2>2, <2>3, <2>4, ReportedOf, HistoryOf
<1>7. CASE Download(Main)
  <2>1. call[Main].at = "download" /\ UNCHANGED <<buffer, finished, logged>>
    BY <1>7 DEF Download, At
  <2>2. call[Main].batch = {} /\ ~finished
    BY <1>2, <2>1
  <2>3. \E at \in {"free", "leave"} : Now(Main, at, call[Main].then, {}, call[Main].row)
    BY <1>0, <1>7, <2>2, DownloadNow
  <2>4. Kept
    BY <1>1, <2>1, <2>2 DEF Kept, InHand
  <2>5. Reported'
    BY <1>0, <2>1, <2>2, <2>3, <2>4, ReportedOf DEF Uploading
  <2>6. CASE step' = step
    BY <1>1, <2>4, <2>5, <2>6, HistoryOf
  <2>7. CASE step' = artifacts[offer].step
    <3>1. offer \in DOMAIN artifacts
      BY <2>1 DEF Shape, TypeOK
    <3>2. \A s \in 1 .. step' : Covered(s)
      BY <2>7, <3>1 DEF History
    <3>3. \A s : Covered(s) => Covered(s)'
      BY <2>4 DEF Kept, Covered
    <3> QED BY <1>1, <2>5, <3>2, <3>3 DEF History
  <2> QED BY <1>0, <1>7, <2>6, <2>7, DownloadNow DEF Resumed
<1>8. CASE Finish(Main)
  <2>1. call[Main].at \in {"leave", "free"} /\ UNCHANGED <<buffer, finished, step, logged>>
    BY <1>8 DEF Finish, At
  <2>2. Now(Main, "flush", "close", {}, None) /\ call[Main].batch = {} /\ ~finished
    BY <1>0, <1>2, <1>8, <2>1, FinishNow
  <2>3. Kept
    BY <1>1, <2>1, <2>2 DEF Kept, InHand
  <2> QED BY <1>0, <1>1, <2>1, <2>2, <2>3, ReportedOf, HistoryOf DEF Uploading
<1> QED BY <1>3, <1>4, <1>5, <1>6, <1>7, <1>8 DEF Threadwise

LEMMA StepHistory ==
  ASSUME Sole, TypeOK, Shape, History, Reported, [Next]_vars PROVE History' /\ Reported'
<1>1. CASE Request(Main)
  BY <1>1, RequestHistory
<1>2. CASE Threadwise(Main) /\ ~Request(Main)
  BY <1>2, CodeHistory
<1>3. CASE Quiet \/ UNCHANGED vars
  <2>1. UNCHANGED <<attempt, step, buffer, finished, logged, dropped, call, recorded, artifacts>>
    BY <1>3, QuietKeeps DEF vars, job, run, server
  <2> QED BY <2>1 DEF History, Reported, Covered, InHand
<1>4. CASE NewAttempt
  <2>1. /\ attempt' = attempt + 1 /\ attempt \in Nat /\ step' = 0 /\ buffer' = {} /\ finished' = FALSE
        /\ call' = Begun /\ UNCHANGED <<logged, dropped, recorded, artifacts>>
    BY <1>4, NatConstants DEF NewAttempt, server, TypeOK
  <2>2. call'[Main].at = "started" /\ call'[Main].batch = {}
    BY <2>1, BegunNow
  <2>3. ASSUME NEW p \in logged PROVE p.attempt <= attempt' /\ p.attempt # attempt'
    <3>1. p.attempt <= attempt /\ p.attempt \in Nat
      BY <2>3, NatConstants DEF Reported, TypeOK, Points
    <3> QED BY <2>1, <3>1
  <2>4. Reported'
    BY <2>1, <2>2, <2>3 DEF Reported, Uploading
  <2>5. History'
    BY <2>1 DEF History, Covered
  <2> QED BY <2>4, <2>5
<1>5. Threads = {Main}
  BY DEF Sole
<1> QED BY <1>1, <1>2, <1>3, <1>4, <1>5 DEF Next, ProcessStep, Threadwise, Quiet

----------------------------------------------------------------------------
(* The theorems *)

(* A training run keeps its types, and the main thread's place in the SDK  *)
(* its meaning, whatever threads report with it (Run in _run.py).          *)
THEOREM TypeCorrect == Spec => []TypeOK
<1>1. Init => TypeOK /\ Shape
  BY InitTyped
<1>2. TypeOK /\ Shape /\ [Next]_vars => (TypeOK /\ Shape)'
  BY StepTyped, StepShape
<1> QED BY <1>1, <1>2, PTL DEF Spec

(* No process trains again a step that a checkpoint confirmed in time      *)
(* contains: while it trains and reports, every such checkpoint of any     *)
(* attempt is of a step no later than the last it has saved or resumed     *)
(* from.  "In time" leaves out what an attempt still confirmed after it    *)
(* had been given up (latestResumableCheckpoint in repos/jobs.js,          *)
(* fetch_resume and log_artifact in _run.py).                              *)
THEOREM NothingTrainedAgain == Spec => []NothingRedone
<1> DEFINE Inv == TypeOK /\ Shape /\ Offered /\ HandedOver /\ Behind
<1>1. Init => Inv
  <2>1. Init => DOMAIN artifacts = {} /\ state = "scheduling"
    BY DEF Init
  <2> QED BY <2>1, InitTyped DEF Behind, Offered, HandedOver
<1>2. Inv /\ [Next]_vars => Inv'
  BY StepTyped, StepShape, StepOffered, StepHandedOver, StepBehind
<1>3. Inv => NothingRedone
  BY DEF Behind, NothingRedone
<1> HIDE DEF Inv
<1> QED BY <1>1, <1>2, <1>3, PTL DEF Spec

(* If checkpoints of different steps have different keys, what an attempt  *)
(* is offered is confirmed, and the store has its own bytes, unless an     *)
(* attempt uploaded or confirmed one of the two after it had been given    *)
(* up; uploads cut short, refused or answered to nobody do not matter.     *)
(* The code does not make keys differ: a name is the caller's, and by      *)
(* default the file's (artifactKey in store.js, fetch_resume in _run.py).  *)
THEOREM OfferAlwaysFetchable == KeysDistinct => (Spec => []OfferFetchable)
<1> SUFFICES ASSUME KeysDistinct PROVE Spec => []OfferFetchable
  OBVIOUS
<1> DEFINE Inv == TypeOK /\ Shape /\ Offered /\ HandedOver /\ Behind /\ Intact
<1>1. Init => Inv
  <2>1. Init => DOMAIN artifacts = {} /\ offer = None /\ resume = None /\ state = "scheduling"
    BY DEF Init
  <2>2. Init => call[Main].at = "started"
    BY BegunNow DEF Init
  <2> QED BY <2>1, <2>2, InitTyped DEF Behind, Offered, HandedOver, Intact
<1>2. Inv /\ [Next]_vars => Inv'
  BY StepTyped, StepShape, StepOffered, StepHandedOver, StepBehind, StepIntact
<1>3. Inv => OfferFetchable
  BY DEF Intact, OfferFetchable, Ready, Stored, TypeOK
<1> HIDE DEF Inv
<1> QED BY <1>1, <1>2, <1>3, PTL DEF Spec

(* If one thread trains and reports, each step up to that of a confirmed   *)
(* checkpoint was recorded by some attempt or was in a batch some attempt  *)
(* reported as dropped, whatever requests failed and whenever a process    *)
(* was killed (log_artifact, flush).                                       *)
THEOREM HistoryAlwaysKept == Sole => (Spec => []HistoryKept)
<1> SUFFICES ASSUME Sole PROVE Spec => []HistoryKept
  OBVIOUS
<1> DEFINE Inv == TypeOK /\ Shape /\ History /\ Reported
<1>1. Init => Inv
  <2>1. Init => DOMAIN artifacts = {} /\ step = 0 /\ logged = {} /\ buffer = {} /\ finished = FALSE
    BY DEF Init
  <2>2. Init => call[Main].at = "started" /\ call[Main].batch = {}
    BY BegunNow DEF Init
  <2> QED BY <2>1, <2>2, InitTyped DEF History, Reported, Uploading
<1>2. Inv /\ [Next]_vars => Inv'
  BY StepTyped, StepShape, StepHistory
<1>3. Inv => HistoryKept
  BY DEF History, HistoryKept, Covered
<1> HIDE DEF Inv
<1> QED BY <1>1, <1>2, <1>3, PTL DEF Spec

(* If one thread trains and reports, a finished run has lost no point      *)
(* without a word: each is recorded or was reported as dropped (finish).   *)
THEOREM NeverSilentlyLost == Sole => (Spec => []NothingSilentlyLost)
<1> SUFFICES ASSUME Sole PROVE Spec => []NothingSilentlyLost
  OBVIOUS
<1> DEFINE Inv == TypeOK /\ Shape /\ History /\ Reported
<1>1. Init => Inv
  <2>1. Init => DOMAIN artifacts = {} /\ step = 0 /\ logged = {} /\ buffer = {} /\ finished = FALSE
    BY DEF Init
  <2>2. Init => call[Main].at = "started" /\ call[Main].batch = {}
    BY BegunNow DEF Init
  <2> QED BY <2>1, <2>2, InitTyped DEF History, Reported, Uploading
<1>2. Inv /\ [Next]_vars => Inv'
  BY StepTyped, StepShape, StepHistory
<1>3. Inv => NothingSilentlyLost
  BY DEF Reported, NothingSilentlyLost, InHand, Uploading
<1> HIDE DEF Inv
<1> QED BY <1>1, <1>2, <1>3, PTL DEF Spec
=============================================================================
