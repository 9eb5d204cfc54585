---------------------------- MODULE MCDiagnostics ----------------------------
(* Small instances of Diagnostics: what firmware there is. *)
EXTENDS Diagnostics, TLC

(* A profile that supports all commands, and echoes addresses. *)
Supporting(cs, rs) ==
    [unsupported_commands |-> {}, silent_commands |-> {}, error_code |-> 15,
     echo_address_on_error |-> TRUE, clusters |-> cs, routers |-> rs]

MCFirmware == <<
    \* modern, in three clusters, the first of which it does not know itself
    Supporting(<<3, 0, 1>>, 0 :> <<1, 2>> @@ 1 :> <<7>>),
    \* legacy: no device discovery, workgroup name or groups
    [Supporting(<<0>>, 0 :> <<2>>) EXCEPT
        !.unsupported_commands = {"device discovery", "workgroup", "groups"}],
    \* an entry that is no number, and a router id that is none
    Supporting(<<Junk, 7>>, 7 :> <<300>>),
    \* no cluster at all
    [Supporting(<<>>, <<>>) EXCEPT !.unsupported_commands = {"groups"}, !.error_code = 18],
    \* no address in errors, a query it ignores, an id that is no cluster's
    [Supporting(<<3, 0, 254>>, 0 :> <<1>>) EXCEPT
        !.echo_address_on_error = FALSE, !.error_code = 11,
        !.silent_commands = {"router version"},
        !.unsupported_commands = {"helvarnet version"}] >>

MCHosts == {<<>>, <<10, 254, 5, 255>>}
MCDefaults == {<<0, 1>>}
=============================================================================
