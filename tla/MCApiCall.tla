----------------------------- MODULE MCApiCall -----------------------------
(* Constants of the model-checking runs of ApiCall. *)
EXTENDS ApiCall

(* No header or an unparsable one, a negative one, waits the client        *)
(* accepts (0, 1, MaxRetryWait), and one just too long for it.             *)
MCHeaders == {None, -1, 0, 1, 3, 4}

(* As MCHeaders, with a number of seconds that no Duration holds. *)
MCHeadersOverflow == {None, -1, 0, 1, 3, 4, 10}

=============================================================================
