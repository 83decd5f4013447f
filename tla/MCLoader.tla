------------------------------ MODULE MCLoader ------------------------------
(***************************************************************************)
(* Loader with few loads, blocks and attempts: the loads alone with all    *)
(* kinds of configurations, and loads and walks that share the limiter.    *)
(***************************************************************************)
EXTENDS LoaderInvariant

\* No attempt at all; a retry at once; the backoff that panics; and one above
\* the cap, before and after a doubling.
MCSettings == {<<0, 3>>, <<2, 0>>, <<2, 1>>, <<3, 3>>}

\* One retry at once.
SharedSettings == {<<2, 0>>}

=============================================================================
