------------------------------ MODULE Diagnostics ------------------------------
(***************************************************************************)
(* run_diagnostics: a Router of its own is opened, the probes are queried   *)
(* one after the other, each with a timeout, and the Router is              *)
(* disconnected.  The connection may be lost on the way; the Router then    *)
(* reconnects by itself, and its connect() asks the same questions as the   *)
(* probes, of the same router and with the same keys.                       *)
(***************************************************************************)
EXTENDS Topology

CONSTANTS
    Timeouts,    \* the timeouts of a probe the user may ask for
    None

COMMAND_RESPONSE_TIMEOUT == 30

ASSUME DiagnosticsAssumption ==
    /\ Timeouts \subseteq (Nat \ {0, COMMAND_RESPONSE_TIMEOUT})
    /\ None \notin Nat \X Nat

VARIABLES
    phase,      \* where run_diagnostics is
    timeout,
    toProbe,    \* the queries it still has to make; the first is under way
    probes,     \* report.probes
    first_pair

diagVars == <<phase, timeout, toProbe, probes, first_pair>>
allVars == <<vars, diagVars>>

Probing == {"probes", "routers", "last"}
Closing == {"closing", "raising"}
Over == {"unreachable", "returned", "raised"}

PROBE_PLAN == <<WorkgroupQuery, Query("router version", <<>>),
                 Query("helvarnet version", <<>>), ClustersQuery>>

DInit ==
    /\ Init
    /\ phase = IF owner = "diagnostics" THEN "called" ELSE "unused"
    /\ timeout \in IF owner = "diagnostics" THEN Timeouts ELSE {0}
    /\ toProbe = <<>> /\ probes = <<>> /\ first_pair = None

-----------------------------------------------------------------------------
(* ProbeResult *)
Probe(q, status, result, code) ==
    [command |-> q.id, address |-> q.address, status |-> status,
     result |-> result, error_code |-> code]

(* _probe, when a reply has come *)
ProbeOf(q, r) ==
    IF r.type = "ERROR" THEN Probe(q, "ERROR", <<>>, r.result[1])
                        ELSE Probe(q, "OK", r.result, None)

(* _probe, when none has: past COMMAND_RESPONSE_TIMEOUT it is the engine's own
   exception that ends the query, and that is no asyncio.TimeoutError. *)
NoReply(q) ==
    Probe(q, IF timeout < COMMAND_RESPONSE_TIMEOUT THEN "TIMEOUT" ELSE "ERROR", <<>>, None)

(* _discovery_address: the pair that was probed, or the Router's ids; clamped *)
discovery_address(pair) ==
    <<IF pair[1] \in ClusterIds THEN pair[1] ELSE 0, IF pair[2] \in 1..254 THEN pair[2] ELSE 1, 1>>

(* What is probed once the routers are. *)
LastProbes(pair) ==
    <<Query("groups", <<>>),
      Query("device discovery", discovery_address(IF pair = None THEN ids ELSE pair))>>

(* Mutant: the last cluster that has routers. *)
LastPairAfter(probe) ==
    LET routers == parse_id_list(probe.result) IN
    IF probe.status # "OK" \/ routers = <<>> THEN first_pair
    ELSE <<probe.address[1], Head(routers)>>

(* The first cluster that has routers, with the first of them. *)
FirstPairAfter(probe) ==
    LET routers == parse_id_list(probe.result) IN
    IF first_pair # None \/ probe.status # "OK" \/ routers = <<>> THEN first_pair
    ELSE <<probe.address[1], Head(routers)>>

(* The next queries; HelvarAddress raises TypeError for what is no cluster. *)
Asks(stage, queries) ==
    IF queries[1].address = <<>> \/ queries[1].address[1] \in ClusterIds
      THEN phase' = stage /\ toProbe' = queries /\ Sends(queries[1])
      ELSE phase' = "raising" /\ toProbe' = <<>> /\ UNCHANGED wire

(* The report gets its next probe, and the next query is made. *)
Report(probe) ==
    LET rest == Tail(toProbe)
        cs == IF probe.status = "OK" THEN parse_id_list(probe.result) ELSE <<>>
        skipped == rest = <<>> /\ phase = "probes" /\ cs = <<>> IN
    /\ probes' = Append(probes, probe)
            \o IF skipped THEN <<Probe(Query("routers", <<>>), "SKIPPED", <<>>, None)>> ELSE <<>>
    /\ first_pair' = IF phase = "routers" THEN FirstPairAfter(probe) ELSE first_pair
    /\ CASE rest # <<>> -> Asks(phase, rest)
         [] rest = <<>> /\ phase = "probes" /\ ~skipped ->
                Asks("routers", [i \in DOMAIN cs |-> RoutersQuery(cs[i])])
         [] skipped \/ (rest = <<>> /\ phase = "routers") -> Asks("last", LastProbes(first_pair'))
         [] rest = <<>> /\ phase = "last" ->
                phase' = "closing" /\ toProbe' = <<>> /\ UNCHANGED wire

(* Left alone by every step of run_diagnostics *)
Untouched == <<Fixed, Outcome, attempted, found, starts, timeout>>

OpenFails ==
    /\ phase = "called" /\ phase' = "unreachable"
    /\ UNCHANGED <<vars, timeout, toProbe, probes, first_pair>>

Opens ==
    /\ phase = "called"
    /\ link' = TRUE
    /\ Asks("probes", PROBE_PLAN)
    /\ UNCHANGED <<Untouched, received, pc, trouble, probes, first_pair>>

ProbeAnswered ==
    /\ phase \in Probing
    /\ Arrived(Head(toProbe)) /\ Takes(Head(toProbe))
    /\ Report(ProbeOf(Head(toProbe), ReplyTo(Head(toProbe))))
    /\ UNCHANGED <<Untouched, link, pc, trouble>>

(* Mutant: a probe without a timeout. *)
ProbeAwaited == phase \in {} /\ UNCHANGED allVars

ProbeUnanswered ==
    /\ phase \in Probing
    /\ Report(NoReply(Head(toProbe)))
    /\ TimesOut(Head(toProbe))
    /\ UNCHANGED <<Untouched, link, received, pc>>

(* finally: router.disconnect() *)
Disconnects ==
    /\ phase \in Closing
    /\ phase' = IF phase = "closing" THEN "returned" ELSE "raised"
    /\ link' = FALSE
    /\ CancelReconnect
    /\ UNCHANGED <<Untouched, wire, received, trouble, toProbe, probes, first_pair>>

DiagnosticsStep == Opens \/ OpenFails \/ ProbeAnswered \/ ProbeUnanswered \/ Disconnects

(* The application's Router, or that of run_diagnostics while it is open. *)
DNext ==
    \/ DiagnosticsStep
    \/ /\ Next
       /\ phase \in {"unused"} \union Probing \union Closing
       /\ UNCHANGED diagVars

(* Every query of a probe ends.  The router is assumed to get to every query
   only because MaxTrouble bounds how often a query times out before it has. *)
DSpec == DInit /\ [][DNext]_allVars /\ WF_allVars(DiagnosticsStep)
            /\ WF_allVars(Handle /\ UNCHANGED <<topologyVars, diagVars>>)

-----------------------------------------------------------------------------
(* DiagnosticsReport.get: the first probe of a command *)
HasProbe(command) == \E i \in DOMAIN probes : probes[i].command = command
get(command) ==
    probes[CHOOSE i \in DOMAIN probes :
        probes[i].command = command /\ \A j \in 1..i - 1 : probes[j].command # command]

(* DiagnosticsReport.supports *)
supports(command) ==
    IF ~HasProbe(command) THEN "unknown"
    ELSE CASE get(command).status = "OK" -> "yes"
           [] get(command).status = "ERROR" ->
                IF is_unsupported_command(get(command).error_code) THEN "no" ELSE "yes"
           [] OTHER -> "unknown"

(* DiagnosticsReport.verdict, its level *)
verdict ==
    CASE phase = "unreachable" -> "error"
      [] phase # "unreachable" /\ supports("device discovery") = "yes"
            /\ get("device discovery").status = "OK" -> "ok"
      [] OTHER -> "warning"

(* diagnostics.py:134-137.  What the report says is supported some firmware the
   router had has answered, with a reply or an error of another kind, and what
   it says is not some firmware has rejected as such: neither a late reply to an
   earlier probe, nor the queries of a reconnect, nor a reply that could not be
   matched turns one into the other (of a probe whose timeout is shorter than
   the engine's own); and a router said to be compatible has listed devices. *)
SupportsIsTrue ==
    /\ timeout < COMMAND_RESPONSE_TIMEOUT =>
        \A q \in Range(probes) :
            LET rejected(p) == q.command \in Firmware[p].unsupported_commands
                code(p) == Firmware[p].error_code IN
            /\ supports(q.command) = "yes" => \E p \in inForce :
                    /\ q.command \notin Firmware[p].silent_commands
                    /\ rejected(p) => code(p) \notin UNSUPPORTED_COMMAND_CODES
            /\ supports(q.command) = "no" => \E p \in inForce :
                    rejected(p) /\ code(p) \in UNSUPPORTED_COMMAND_CODES
    /\ verdict = "ok" => \E p \in inForce :
            "device discovery" \notin
                Firmware[p].unsupported_commands \union Firmware[p].silent_commands

(* The pair whose devices are probed, if the probes found one, is what the
   router reported. *)
ProbedPairReported == first_pair # None => IsReported(first_pair)

(* The address whose devices are probed is the one a Router would come to use
   with the same firmware (clamped), though run_diagnostics finds it in a loop
   of its own: a verdict of "compatible" is about those very devices. *)
AddressAgrees ==
    \A p \in Profiles :
        /\ phase = "returned" /\ inForce = {p} /\ trouble = 0
        /\ {"clusters", "routers"} \intersect Firmware[p].unsupported_commands = {}
        => LET cs == parse_id_list(Firmware[p].clusters)
               rs == [c \in Reported(Firmware[p]) |-> parse_id_list(Firmware[p].routers[c])] IN
           get("device discovery").address =
                discovery_address(IF DOMAIN rs = {} THEN ids ELSE FirstPair(cs, rs))

(* diagnostics.py:363 - "so this always returns rather than hanging": whatever
   the router ignores and however often the connection is lost. *)
Returns == phase = "called" ~> phase \in Over
=============================================================================
