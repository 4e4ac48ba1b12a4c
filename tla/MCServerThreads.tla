--------------------------- MODULE MCServerThreads ---------------------------
(* A small instance of ServerThreads for TLC.                              *)
EXTENDS ServerThreads

(* More peers than fds, and one more than two loops share evenly.          *)
MCMaxThreads == 2
MCMaxConns == 3
MCFdLimit == 2

=============================================================================
