--------------------------- MODULE MC_NetworkClient ---------------------------
(***************************************************************************)
(* A small instance of NetworkClient: two objects and a file, two of the   *)
(* three calls to the same server.                                         *)
(***************************************************************************)
EXTENDS NetworkClient

CONSTANTS api, files, object1, object2, file1

Json(u, d) == [url |-> u, file |-> FALSE, body |-> d]
File(u, p) == [url |-> u, file |-> TRUE, body |-> p]

MCUrls    == {api, files}
MCObjects == {object1, object2}
MCFiles   == {file1}
MCCalls   == {Json(api, object1), Json(api, object2), File(files, file1)}
MCOneCall == {Json(api, object1)}

Strategy(n, i, m) == [maxRetries |-> n, initialDelay |-> i, maxDelay |-> m]

MCStrategies  == {Strategy(0, 1, 3), Strategy(1, 2, 2), Strategy(3, 1, 3)}
MCOneStrategy == {Strategy(3, 1, 3)}
=============================================================================
