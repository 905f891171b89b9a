------------------------------- MODULE Gates -------------------------------
(***************************************************************************)
(* The two gates of Placement as scheduleJob calls them, for any requests, *)
(* machines and quotas, beside what a node can hold and a project may have *)
(* defined on its own.  That the gates keep SchedulerAssumption for these, *)
(* which is all Scheduler knows of them, TLC checks on its instances and   *)
(* SchedulerProofs proves.                                                 *)
(***************************************************************************)
EXTENDS Scheduler, Placement

CONSTANTS
  Request,   \* what each job asks for
  Machine,   \* what each node is made of
  Quota      \* each project's limits

Projects == {Project[j] : j \in Jobs}

Limits == {"jobs", "cpu", "memory", "gpu"}

Device == [memory : Nat, health : {"OK", "UNKNOWN", "DEGRADED", "FAILED"}]

ASSUME GatesAssumption ==
  /\ IsFiniteSet(Jobs) /\ None \notin Jobs /\ None \notin Nodes
  /\ Request \in [Jobs -> [jobs : {1}, cpu : Nat, memory : Nat, gpu : Nat, gpuMemory : Nat]]
  /\ Machine \in [Nodes -> [cpu : Nat, memory : Nat, reservedCpu : Nat, reservedMemory : Nat,
                            advertised : Nat, devices : Seq(Device), name : Nat]]
  /\ \A m, n \in Nodes : Machine[m].name = Machine[n].name => m = n
  /\ Quota \in [Projects -> [Limits -> Nat]]

Sums(S)    == [d \in Limits |-> Total(Request, S, d)]
Less(u, r) == [d \in Limits |-> u[d] - r[d]]

(* scheduleJob takes the job's own request out of the usage it read        *)
WithinQuota(j, S) ==
  CheckQuota(Request[j], Quota[Project[j]], Less(Sums(S), Request[j]))

BestNode(j, held, up) ==
  PlaceJob(Machine, up, [n \in Nodes |-> Sums(held[n])], Request[j], None)

----------------------------------------------------------------------------
(* What is promised to projects, and what nodes have *)

Limited(S, quota) == \A d \in Limits : quota[d] = 0 \/ Total(Request, S, d) <= quota[d]

Allowance == {S \in SUBSET Jobs : \A j \in S : Limited(S \cap Sharing(j), Quota[Project[j]])}

(* Every job gets distinct healthy devices of the size it asks for         *)
Assigned(S, machine) ==
  \E give \in [HealthyGpus(machine) -> S \cup {None}] :
    \A j \in S : LET mine == {i \in HealthyGpus(machine) : give[i] = j} IN
      /\ Cardinality(mine) = Request[j].gpu
      /\ \A i \in mine : machine.devices[i].memory >= Request[j].gpuMemory

(* Where nobody has discovered the devices, no job may care about their size *)
Undiscovered(S, machine) ==
  machine.devices = <<>> /\ \A j \in S : Request[j].gpu = 0 \/ Request[j].gpuMemory = 0

(* Other Pods' reservation, rounded up, may exceed what the node has to    *)
(* give, rounded down; then no job gets any of it                          *)
Enough(S, d, reserved, capacity) ==
  Total(Request, S, d) = 0 \/ Total(Request, S, d) + reserved <= capacity

Fits(S, machine) ==
  /\ Enough(S, "cpu", machine.reservedCpu, machine.cpu)
  /\ Enough(S, "memory", machine.reservedMemory, machine.memory)
  /\ Total(Request, S, "gpu") <= machine.advertised
  /\ Assigned(S, machine) \/ Undiscovered(S, machine)

Capacity == [n \in Nodes |-> {S \in SUBSET Jobs : Fits(S, Machine[n])}]
=============================================================================
