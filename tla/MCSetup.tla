------------------------------ MODULE MCSetup ------------------------------
(***************************************************************************)
(* Instances of Plaintext and of Discovery, which set up what the kernel   *)
(* watches, in one run.  part tells which of them takes steps; neither     *)
(* reads what the other writes.  Plaintext takes them twice: where lookups *)
(* fail, which no connection depends on, and where connections are made.   *)
(* The run's constants are Plaintext's.                                    *)
(***************************************************************************)
EXTENDS Plaintext

CONSTANTS p, q, lib, crypto, exe

VARIABLES part, alive, born, maps, hooks, execs, opens, permits, due, seen, expired, known, links,
          started, batch, agenda, job, opened

discovery ==
    <<alive, born, maps, hooks, execs, opens, permits, due, seen, expired, known, links, started, batch,
      agenda, job, opened>>

LocalIpOf(x) == x

(* A pod of IPv6 and one of IPv4, behind an address and several ports; and *)
(* the latter alone, headless.                                             *)
Headless == [ip |-> None, pods |-> {2}, ports |-> "one"]

FewServices == {[ip |-> 1, pods |-> {2, 3}, ports |-> "many"], Headless}

(* One library with some of the functions, one file of the host with none, *)
(* an executable that a uprobe may fail on.                                *)
MCExports(f) ==
    CASE f = lib -> {"SSL_read", "SSL_write", "SSL_read_ex", "SSL_free"}
      [] f = exe -> {"SSL_read", "SSL_write"}
      [] OTHER   -> {}

OneCgroup(x) == "pod"

Discovery == INSTANCE Discovery WITH
    phase <- started,
    Procs <- {p, q}, Libs <- {lib}, Exes <- {exe}, HostFiles <- {crypto}, Exports <- MCExports,
    Executables <- TRUE, Fragile <- {exe}, Scope <- OneCgroup, QueueSize <- 1, Rounds <- 3, MaxExpired <- 1

ASSUME FilesAreTwo == Discovery!DiscoveryAssumption

(* The module that takes no step has one initial state, and so has Plaintext *)
(* where connections are made: the cluster changes later.                    *)
SetupInit ==
    /\ part \in {"lookups", "connections", "discovery"} /\ Init /\ Discovery!Init
    /\ part # "discovery" => alive = {}
    /\ part # "lookups" => cluster = [h \in Hosts |-> Headless]

Plaintexts(action) ==
    /\ \/ part = "lookups" /\ action /\ UNCHANGED socket
       \/ part = "connections" /\ action /\ UNCHANGED failures
    /\ UNCHANGED <<part, discovery>>

Discovers(action) == part = "discovery" /\ action /\ UNCHANGED <<part, vars>>

(* The fairness of FairSpec, in each module. *)
SetupSpec ==
    /\ SetupInit
    /\ [][Plaintexts(Next) \/ Discovers(Discovery!Next)]_<<part, vars, discovery>>
    /\ WF_vars(Plaintexts(Starting)) /\ WF_vars(Plaintexts(Resolving)) /\ WF_vars(Plaintexts(Handle))
    /\ WF_discovery(Discovers(
          Discovery!Attaching \/ Discovery!Starting \/ Discovery!NextEvent \/ Discovery!MarkSeen))
    /\ SF_discovery(Discovers(Discovery!ServeOpens))
    /\ SF_discovery(Discovers(Discovery!NotifyExec))
    /\ SF_discovery(Discovers(Discovery!ServeExecs))

ProbesFitTogether == Discovery!ProbesFitTogether

TriedIsProbed == Discovery!TriedIsProbed

OpenIsTried == Discovery!OpenIsTried
=============================================================================
