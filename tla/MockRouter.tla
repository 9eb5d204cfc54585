------------------------------ MODULE MockRouter ------------------------------
(***************************************************************************)
(* A router as mock_router.py has it: a firmware profile says how each      *)
(* query is answered and may be switched while the server runs.  The client *)
(* side of the connection is a short form of CommandEngine: queries go out  *)
(* in order, and replies wait in a list for whoever asked the same.         *)
(*                                                                         *)
(* A query is its command and its address, <<>> for none.  The result of a  *)
(* reply is a sequence: the ids of a list, Junk for an entry that is no     *)
(* number, or the one code of an error.                                     *)
(***************************************************************************)
EXTENDS Integers, Queues

CONSTANTS
    Firmware,   \* the firmware profiles the mock cycles through
    Junk,
    MaxSwitches \* bound: switches of the profile

VARIABLES
    profile,  \* the profile in force, as its place in the cycle
    inForce,  \* history: the profiles that have been
    switches, \* switches so far
    link,     \* the connection is up
    wire,     \* queries the writer and the connection have yet to bring
    received  \* commands_received of the client

routerVars == <<profile, inForce, switches, link, wire, received>>

Profiles == DOMAIN Firmware

ASSUME FirmwareAssumption ==
    /\ Firmware \in Seq(Range(Firmware)) \ {<<>>}
    /\ \A p \in Profiles :
        /\ Firmware[p].echo_address_on_error \in BOOLEAN
        /\ Firmware[p].error_code \in Nat
        /\ Firmware[p].clusters \in Seq(Nat \union {Junk})
        /\ \A c \in DOMAIN Firmware[p].routers : Firmware[p].routers[c] \in Seq(Nat \union {Junk})
    /\ MaxSwitches \in Nat

CLUSTER_DOES_NOT_EXIST == 9
MISSING_PARAMETER == 17
UNSUPPORTED_COMMAND_CODES == {14, 15, 18}

Query(id, address) == [id |-> id, address |-> address]
Response(q, type, result) ==
    [id |-> q.id, address |-> q.address, type |-> type, result |-> result]

-----------------------------------------------------------------------------
(* _error_response *)
ErrorResponse(f, q, code) ==
    Response(IF f.echo_address_on_error THEN q ELSE [q EXCEPT !.address = <<>>],
             "ERROR", <<code>>)

(* _resolve_result: QUERY_ROUTERS depends on the cluster it is addressed to. *)
Resolved(f, q) ==
    CASE q.id = "routers" /\ q.address = <<>> -> ErrorResponse(f, q, MISSING_PARAMETER)
      [] q.id = "routers" /\ q.address # <<>> ->
            IF q.address[1] \in DOMAIN f.routers
              THEN Response(q, "REPLY", f.routers[q.address[1]])
              ELSE ErrorResponse(f, q, CLUSTER_DOES_NOT_EXIST)
      [] q.id = "clusters" -> Response(q, "REPLY", f.clusters)
      [] OTHER -> Response(q, "REPLY", <<>>)

(* build_response, of a query that is answered at all *)
build_response(f, q) ==
    IF q.id \in f.unsupported_commands THEN ErrorResponse(f, q, f.error_code)
    ELSE Resolved(f, q)

(* parse_id_list: what is no number is skipped. *)
parse_id_list(result) ==
    LET numbers == {i \in DOMAIN result : result[i] # Junk}
        nth(k) == CHOOSE i \in numbers : Cardinality({j \in numbers : j <= i}) = k
    IN [k \in 1..Cardinality(numbers) |-> result[nth(k)]]

(* Mutant: one code only, as the comment of DiagnosticsReport.supports has it. *)
IsInvalidMessageCommand(code) == code = 15

(* is_unsupported_command *)
is_unsupported_command(code) == code \in UNSUPPORTED_COMMAND_CODES

(* Mutant: replies are told apart by their command alone. *)
MatchesCommandOnly(q) == {i \in DOMAIN received : received[i].id = q.id}

(* type_parameters_address of query and reply are equal. *)
Matches(q) == {i \in DOMAIN received :
                received[i].id = q.id /\ received[i].address = q.address}

Oldest(q) == CHOOSE i \in Matches(q) : \A j \in Matches(q) : i <= j

-----------------------------------------------------------------------------
RouterInit ==
    /\ profile \in Profiles /\ inForce = {profile} /\ switches = 0
    /\ link = FALSE /\ wire = <<>> /\ received = <<>>

(* serve_forever, _cycle_profile: set_profile to the next of the cycle *)
SetProfile ==
    /\ switches < MaxSwitches
    /\ profile' = (profile % Len(Firmware)) + 1
    /\ inForce' = inForce \union {profile'}
    /\ switches' = switches + 1
    /\ UNCHANGED <<link, wire, received>>

(* _handle_client: the next query is answered, or ignored by a silent profile. *)
Handle ==
    /\ link /\ wire # <<>>
    /\ wire' = Tail(wire)
    /\ received' = IF Head(wire).id \in Firmware[profile].silent_commands THEN received
                   ELSE Append(received, build_response(Firmware[profile], Head(wire)))
    /\ UNCHANGED <<profile, inForce, switches, link>>

(* The connection is lost.  Queries that were written go with it; those still
   in the writer's queue wait for the next one. *)
Lose ==
    /\ link /\ link' = FALSE
    /\ \E n \in 0..Len(wire) : wire' = SubSeq(wire, n + 1, Len(wire))
    /\ UNCHANGED <<profile, inForce, switches, received>>

Sends(q) == wire' = Append(wire, q)

(* The reply a waiting query q takes. *)
Arrived(q) == Matches(q) # {}
ReplyTo(q) == received[Oldest(q)]
Takes(q) == received' = RemoveAt(received, Oldest(q))
=============================================================================
