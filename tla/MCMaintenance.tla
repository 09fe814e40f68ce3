--------------------------- MODULE MCMaintenance ---------------------------
(* Small instances of Maintenance.                                         *)
EXTENDS Maintenance

CONSTANTS a, b

On(us, f, r) == [on |-> TRUE, urls |-> us, file |-> f, refresh |-> r]
Off(us) == [on |-> FALSE, urls |-> us, file |-> FALSE, refresh |-> TRUE]

MCUrls == {a, b}
(* Blocking on, with one list and two, with a file list, without refreshes; *)
(* and off, with two sets of lists that are not read.                      *)
MCConfigs ==
    {On({a}, FALSE, TRUE), On({a, b}, TRUE, TRUE), On({b}, FALSE, FALSE), Off({a}), Off({b})}
(* Refreshes off.                                                          *)
MCNoRefreshConfigs == {On({a}, FALSE, FALSE), On({a, b}, FALSE, FALSE)}
============================================================================
