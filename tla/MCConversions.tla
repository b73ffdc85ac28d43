--------------------------- MODULE MCConversions ---------------------------
(***************************************************************************)
(* Constants of the run of Conversions: for each kind of input one         *)
(* character of every class its conversion tells apart, numbers of up to   *)
(* ten bytes, and bundles of one member of every sort.                     *)
(***************************************************************************)
EXTENDS Conversions

(* 0 9 a F g + - space, and no-break space, e acute and the euro sign.     *)
MCHex == {<<48>>, <<57>>, <<97>>, <<70>>, <<103>>, <<43>>, <<45>>, <<32>>,
          <<194, 160>>, <<195, 169>>, <<226, 130, 172>>}
(* A e 2 + / = line feed, and the dot and the percent sign of odd ids.     *)
MCBase64 == {<<65>>, <<101>>, <<50>>, <<43>>, <<47>>, <<61>>, <<10>>, <<46>>, <<37>>}
MCInteger == {<<0>>, <<255>>}

Given(type) == [type |-> type, empty |-> FALSE]
MCMembers ==
  {[name |-> f, value |-> v] :
     f \in {"hash", "merkle_root", "token", "merkle_algorithm"},
     v \in {Given("string"), [type |-> "string", empty |-> TRUE], Null}}
  \union {[name |-> "archive_stamps", value |-> Given("list")], [name |-> "leaf_index", value |-> Given("string")],
          [name |-> "unknown", value |-> Given("list")]}

MCAlphabet == [hex |-> MCHex, base64 |-> MCBase64, integer |-> MCInteger, bundle |-> MCMembers]
MCLongest == [hex |-> 4, base64 |-> 5, integer |-> 10, bundle |-> 4]

=============================================================================
