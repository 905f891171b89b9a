--------------------------- MODULE TrainingRunInv ---------------------------
(***************************************************************************)
(* What holds between the steps of a training run: where the main thread   *)
(* is in the SDK decides how far the store, the rows and the history may   *)
(* be behind the step it has reached.                                      *)
(***************************************************************************)
EXTENDS TrainingRun

Starting  == {"started", "fetch", "download"}
Uploading == {"put", "abandon", "confirm"}

(* The SDK is on its way to a checkpoint of the step it has reached *)
Saving(c) ==
  \/ c.at \in {"flush", "metrics"} /\ c.then = "register"
  \/ c.at \in {"register"} \cup Uploading

(* All another thread ever does is report *)
Reporting(c) == c.at \in {"free", "flush", "metrics"} /\ c.then = "free"

Shape ==
  /\ \A t \in Threads \ {Main} : Reporting(call[t])
  /\ call[Main].at \notin {"flush", "metrics"} => call[Main].then = "free"
  /\ call[Main].at \in {"fetch", "download"} => offer # None
  /\ Saving(call[Main]) => saved = step /\ step > 0
  /\ call[Main].at \in Uploading =>
       call[Main].row # None /\ artifacts[call[Main].row].step = step
  /\ state = "requeued" => attempt < MaxAttempts

Ready(r) == artifacts[r].status = "READY"

(* Confirmed in time *)
Settled(r) == Ready(r) /\ r \notin belated

(* What the next attempt will be offered is not behind any of those *)
Offered ==
  state = "requeued" => \A r \in DOMAIN artifacts : Settled(r) =>
    resume # None /\ artifacts[r].step <= artifacts[resume].step

(* No checkpoint confirmed in time is ahead of where its attempt starts    *)
(* from, or of the last one saved, but for the one being confirmed         *)
Behind ==
  \A r \in DOMAIN artifacts : Settled(r) =>
    /\ call[Main].at \in Starting => offer # None /\ artifacts[r].step <= artifacts[offer].step
    /\ Reporting(call[Main]) => artifacts[r].step <= saved
    /\ Saving(call[Main]) =>
         \/ artifacts[r].step < saved
         \/ call[Main].at = "confirm" /\ r = call[Main].row

(* A process that trains does not train again what a checkpoint confirmed  *)
(* in time contains                                                        *)
NothingRedone ==
  \A r \in DOMAIN artifacts :
    Settled(r) /\ Reporting(call[Main]) => artifacts[r].step <= saved

(* Checkpoints of different steps have different keys *)
KeysDistinct == \A s, q \in 1 .. MaxSteps : Name[s] = Name[q] => s = q

(* The store has the row's own bytes, or a belated attempt's, or the row   *)
(* is itself one of those                                                  *)
Stored(r) == object[Key(r)] = r \/ {r, object[Key(r)]} \cap belated # {}

(* The store has what each confirmed row, and the one about to be, is of *)
Intact ==
  /\ \A r \in DOMAIN artifacts : Ready(r) => Stored(r)
  /\ \A r \in {resume, offer} : r # None => Ready(r)
  /\ call[Main].at = "confirm" => Stored(call[Main].row)

(* What an attempt given up still has in hand is known for belated *)
HandedOver ==
  state = "requeued" /\ process = "running" /\ call[Main].at \in {"put", "confirm"} =>
    call[Main].row \in belated

(* The training code reports from the thread that trains, and no other *)
Sole == Threads = {Main}

Covered(s) ==
  \E a \in 1 .. MaxAttempts : [attempt |-> a, by |-> Main, step |-> s] \in recorded \cup dropped

InHand == buffer \cup call[Main].batch

(* Every step up to a checkpoint is in the history; a step reached is too, *)
(* or its point is still in the process's hands                            *)
History ==
  /\ \A r \in DOMAIN artifacts : \A s \in 1 .. artifacts[r].step : Covered(s)
  /\ \A s \in 1 .. step : Covered(s) \/ [attempt |-> attempt, by |-> Main, step |-> s] \in InHand

Reported ==
  /\ \A p \in logged : /\ p.attempt <= attempt
                       /\ p.attempt = attempt => p \in recorded \cup dropped \cup InHand
  /\ call[Main].at # "metrics" => call[Main].batch = {}
  /\ call[Main].at \in {"metrics", "register", "finished"} \cup Uploading => buffer = {}
  /\ finished => call[Main].at = "finished"
=============================================================================
