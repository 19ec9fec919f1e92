--------------------------- MODULE MCNxwebServer ---------------------------
(* Instantiates NxwebServer for TLC: three registered handlers, an        *)
(* in-process one for /a/b that only accepts GET, an out-of-process one   *)
(* for /a/b with NXWEB_HANDLE_ANY, and an out-of-process one for /a with  *)
(* no method flags.  A GET of /a/b can pass (NEXT) from the first to the  *)
(* second and from the second to the third: one request, two jobs.        *)
EXTENDS NxwebServer, TLC

MCHandlers ==
    << [prefix |-> <<"/", "a", "/", "b">>, inproc |-> TRUE,  methods |-> {"GET"}],
       [prefix |-> <<"/", "a", "/", "b">>, inproc |-> FALSE, methods |-> {"ANY"}],
       [prefix |-> <<"/", "a">>,           inproc |-> FALSE, methods |-> {}] >>

\* Both handlers in-process: no jobs reach the workers.
MCHandlersInproc ==
    << [prefix |-> <<"/", "a", "/", "b">>, inproc |-> TRUE, methods |-> {"GET"}],
       [prefix |-> <<"/", "a">>,           inproc |-> TRUE, methods |-> {"ANY"}] >>

\* /a/b matches both handlers, /a? only the second (at the '?'), and /ab
\* neither (the prefix /a is not followed by a separator): the default
\* handler answers 404.
MCUris == { <<"/", "a", "/", "b">>, <<"/", "a", "?">>, <<"/", "a", "b">> }

MCMethods == {"GET", "POST"}

ConnSymmetry == Permutations(Conns)
=============================================================================
