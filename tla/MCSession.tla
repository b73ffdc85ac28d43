----------------------------- MODULE MCSession -----------------------------
(* Constants of the model-checking runs of Session. *)
EXTENDS Session, TLC

(* Backoff, a wait of no time, one the client accepts, one it does not. *)
MCHeaders == {None, 0, 1, 2}

(* As MCHeaders, with a number of seconds that no Duration holds. *)
MCHeadersOverflow == {None, 1, 4}

MCSymmetry == Permutations(JobIds)

=============================================================================
