---------------------------- MODULE Conversions ----------------------------
(***************************************************************************)
(* The conversions that the program writes by hand: hex texts (src/src/    *)
(* merkle.rs and hashing.rs), ids in URLs (client.rs), base64 (verify.rs), *)
(* decimal serial numbers (rfc3161.rs) and dates (ui.rs); and bundles, as  *)
(* their declaration has them read and written (proof.rs).                 *)
(*                                                                         *)
(* A character is the sequence of its UTF-8 bytes, a text a sequence of    *)
(* characters.  The state is an input to try, which grows by a character   *)
(* or a year at a time, so that every input up to a bound is tried.        *)
(***************************************************************************)
EXTENDS Integers, SequencesExt, FiniteSetsExt

CONSTANTS
  None,       \* an Err, or Option::None
  Panics,     \* the process is aborted
  DigestSize, \* the length of a SHA-256 digest, 32
  AccWidth,   \* the width of the accumulator of decode_base64, 32
  Alphabet,   \* the characters, or members, that inputs of each kind are made of
  Longest,    \* the longest input of each kind
  LastYear    \* the last year whose days are tried

(* A byte below 128 is a character, and only those are less than 128.      *)
Chars == {c \in Seq(0 .. 255) : \/ Len(c) = 1 /\ c[1] < 128
                                \/ Len(c) \in 2 .. 4 /\ (\A k \in DOMAIN c : c[k] >= 128)}

ASSUME ConversionAssumption ==
  /\ None \notin Nat \union Seq(Nat) \union Seq(Chars)
  /\ Panics \notin {None} \union Seq(Nat)
  /\ DigestSize \in Nat
(* Of an accumulator of 12 bits or more.                                   *)
ASSUME WidthAssumption == 2^AccWidth \in Nat \ {0} /\ 2^AccWidth % 2^12 = 0
ASSUME AlphabetAssumption ==
  /\ \A k \in {"hex", "base64"} : \A c \in Alphabet[k] : c \in Chars
  /\ \A c \in Alphabet["integer"] : c \in Seq(0 .. 255) /\ Len(c) = 1
  /\ \A m \in Alphabet["bundle"] : m \in [name : STRING, value : [type : STRING, empty : BOOLEAN]]

VARIABLES
  kind,       \* "hex", "base64", "integer", "bundle" or "year"
  text,       \* an input: a text, or the members of a bundle
  year,       \* a year, from 1970 on
  newYear     \* the days from the epoch to its first one

convVars == <<kind, text, year, newYear>>

Bytes(t) == FlattenSeq(t)
Ascii(bytes) == [k \in DOMAIN bytes |-> <<bytes[k]>>]

(* The white space of Unicode. *)
White ==
  {<<b>> : b \in (9 .. 13) \union {32}}
  \union {<<194, 133>>, <<194, 160>>, <<225, 154, 128>>, <<226, 129, 159>>, <<227, 128, 128>>}
  \union {<<226, 128, b>> : b \in (128 .. 138) \union {168, 169, 175}}

-----------------------------------------------------------------------------
(* Hex texts. *)

(* Where a text may be cut: before, after and between its characters.      *)
Boundaries(t) == {Len(Bytes(SubSeq(t, 1, k))) : k \in 0 .. Len(t)}

DigitOfLower(b) ==
  IF b \in 48 .. 57 THEN b - 48 ELSE IF b \in 97 .. 102 THEN b - 87 ELSE None
DigitOf(b) ==
  IF b \in 48 .. 57 THEN b - 48
  ELSE IF b \in 97 .. 102 THEN b - 87 ELSE IF b \in 65 .. 70 THEN b - 55 ELSE None

(* u8::from_str_radix of two bytes: the first one may be a plus sign.      *)
from_str_radix(a, b) ==
  LET high == IF a = 43 THEN 0 ELSE DigitOf(a)
  IN  IF None \in {high, DigitOf(b)} THEN None ELSE 16 * high + DigitOf(b)

(* The first pair of bytes that is no number, or no slice, decides.        *)
hex_decode(t) ==
  LET s == Bytes(t)
      pairs == 0 .. Len(s) \div 2 - 1
      Sliced(k) == {2 * k, 2 * k + 2} \subseteq Boundaries(t)
      Pair(k) == from_str_radix(s[2 * k + 1], s[2 * k + 2])
      bad == {k \in pairs : ~Sliced(k) \/ Pair(k) = None}
  IN  IF Len(s) % 2 # 0 THEN None
      ELSE IF bad = {} THEN [k \in 1 .. Len(s) \div 2 |-> Pair(k - 1)]
      ELSE IF Sliced(Min(bad)) THEN None ELSE Panics

LowerDigit(d) == IF d < 10 THEN 48 + d ELSE 87 + d
hex_encode(bytes) ==
  Ascii(FlattenSeq([k \in DOMAIN bytes |->
                      <<LowerDigit(bytes[k] \div 16), LowerDigit(bytes[k] % 16)>>]))

to_ascii_lowercase(t) ==
  [k \in DOMAIN t |-> IF Len(t[k]) = 1 /\ t[k][1] \in 65 .. 90 THEN <<t[k][1] + 32>> ELSE t[k]]

trim(t) ==
  LET solid == {k \in DOMAIN t : t[k] \notin White}
  IN  IF solid = {} THEN <<>> ELSE SubSeq(t, Min(solid), Max(solid))

is_ascii_hexdigit(c) == Len(c) = 1 /\ c[1] \in (48 .. 57) \union (65 .. 70) \union (97 .. 102)

NormalizeKeepingCase(input) ==
  LET trimmed == trim(input)
  IN  IF Len(Bytes(trimmed)) # 2 * DigestSize THEN None
      ELSE IF ~\A k \in DOMAIN trimmed : is_ascii_hexdigit(trimmed[k]) THEN None
      ELSE trimmed

normalize_sha256_hex(input) ==
  LET trimmed == trim(input)
  IN  IF Len(Bytes(trimmed)) # 2 * DigestSize THEN None
      ELSE IF ~\A k \in DOMAIN trimmed : is_ascii_hexdigit(trimmed[k]) THEN None
      ELSE to_ascii_lowercase(trimmed)

-----------------------------------------------------------------------------
(* A tracking id in the path of a URL. *)

Percent == 37
Unreserved == (48 .. 57) \union (65 .. 90) \union (97 .. 122) \union {45, 46, 95, 126}
UpperDigit(d) == IF d < 10 THEN 48 + d ELSE 55 + d
EscapeUnpadded(b) == IF b < 16 THEN <<Percent, UpperDigit(b)>>
                     ELSE <<Percent, UpperDigit(b \div 16), UpperDigit(b % 16)>>
Escape(b) == <<Percent, UpperDigit(b \div 16), UpperDigit(b % 16)>>

urlencode(t) ==
  FlattenSeq([k \in DOMAIN t |->
                IF Len(t[k]) = 1 /\ t[k][1] \in Unreserved THEN t[k]
                ELSE FlattenSeq([i \in DOMAIN t[k] |-> Escape(t[k][i])])])

(* A segment of the path of a URL (external): nothing in it ends it, and   *)
(* it is not one that the URL library resolves out of the path, a dot or   *)
(* two, each of them escaped or not.                                       *)
Dots == {<<46>>, <<Percent, 50, 69>>, <<Percent, 50, 101>>}
DotSegments == Dots \union {d \o e : d \in Dots, e \in Dots}
IsSegment(s) == ToSet(s) \subseteq Unreserved \union {Percent} /\ s \notin DotSegments

(* How the service reads a path (external): an escape is two digits long.  *)
ReadByte(r, b) ==
  IF Len(r.escape) = 2
  THEN [id |-> Append(r.id, from_str_radix(r.escape[2], b)), escape |-> <<>>]
  ELSE IF b = Percent \/ r.escape # <<>> THEN [r EXCEPT !.escape = Append(@, b)]
  ELSE [r EXCEPT !.id = Append(@, b)]

-----------------------------------------------------------------------------
(* Base64. *)

SextetOf(c) ==
  IF c \in 65 .. 90 THEN c - 65
  ELSE IF c \in 97 .. 122 THEN c - 97 + 26
  ELSE IF c \in 48 .. 57 THEN c - 48 + 52
  ELSE IF c = 43 THEN 62 ELSE IF c = 47 THEN 63 ELSE None

Equals == 61
Skipped == {9, 10, 13, 32}

(* Six more bits, of which the first eight go out once there are eight.    *)
TakeLate(d, sextet) ==
  LET acc == (d.acc * 64 + sextet) % 2^AccWidth
      bits == d.bits + 6
  IN  IF bits > 8
      THEN [d EXCEPT !.acc = acc, !.bits = bits - 8, !.out = Append(@, (acc \div 2^(bits - 8)) % 256)]
      ELSE [d EXCEPT !.acc = acc, !.bits = bits]
Take(d, sextet) ==
  LET acc == (d.acc * 64 + sextet) % 2^AccWidth
      bits == d.bits + 6
  IN  IF bits >= 8
      THEN [d EXCEPT !.acc = acc, !.bits = bits - 8, !.out = Append(@, (acc \div 2^(bits - 8)) % 256)]
      ELSE [d EXCEPT !.acc = acc, !.bits = bits]

DecodeByte(d, c) ==
  IF d.ended \/ c \in Skipped THEN d
  ELSE IF c = Equals THEN [d EXCEPT !.ended = TRUE]
  ELSE IF SextetOf(c) = None THEN [d EXCEPT !.ended = TRUE, !.failed = TRUE]
  ELSE Take(d, SextetOf(c))

decode_base64(t) ==
  LET d == FoldLeft(DecodeByte, [acc |-> 0, bits |-> 0, out |-> <<>>, ended |-> FALSE, failed |-> FALSE],
                    Bytes(t))
  IN  IF d.failed THEN None ELSE d.out

decode_token(t) == IF t = <<>> THEN None ELSE decode_base64(t)

-----------------------------------------------------------------------------
(* Decimal numbers, of bytes from the highest to the lowest. *)

(* The digits of a carry, from the lowest.                                 *)
CarryDigits[carry \in 0 .. 255] ==
  IF carry = 0 THEN <<>> ELSE <<carry % 10>> \o CarryDigits[carry \div 10]

(* 256 times a number, and a byte: its digits and what is carried out.     *)
Shifted(digits, byte) ==
  LET Step(a, d) == [digits |-> Append(a.digits, (d * 256 + a.carry) % 10),
                     carry |-> (d * 256 + a.carry) \div 10]
  IN  FoldLeft(Step, [digits |-> <<>>, carry |-> byte], digits)

AddByteOneDigit(digits, byte) ==
  LET shifted == Shifted(digits, byte)
  IN  shifted.digits \o (IF shifted.carry = 0 THEN <<>> ELSE <<shifted.carry % 10>>)
AddByte(digits, byte) ==
  Shifted(digits, byte).digits \o CarryDigits[Shifted(digits, byte).carry]

int_to_decimal(bytes) == Reverse(FoldLeft(AddByte, <<0>>, bytes))

(* The remainder by m of the number with the digits s, from the highest.   *)
Remainder(s, base, m) ==
  LET Read(r, d) == (r * base + d) % m
  IN  FoldLeft(Read, 0, s)

-----------------------------------------------------------------------------
(* Dates. *)

YearOfEraPlain(doe) == (doe - doe \div 1460 + doe \div 36524) \div 365
YearOfEra(doe) == (doe - doe \div 1460 + doe \div 36524 - doe \div 146096) \div 365

civil(days) ==
  LET z == days + 719468
      era == z \div 146097
      doe == z % 146097
      yoe == YearOfEra(doe)
      doy == doe - (365 * yoe + yoe \div 4 - yoe \div 100)
      mp == (5 * doy + 2) \div 153
      m == IF mp < 10 THEN mp + 3 ELSE mp - 9
      y == yoe + era * 400
  IN  [year |-> IF m <= 2 THEN y + 1 ELSE y, month |-> m, day |-> doy - (153 * mp + 2) \div 5 + 1]

format_unix_utc(secs) ==
  LET rem == secs % 86400
  IN  [date |-> civil(secs \div 86400),
       clock |-> <<rem \div 3600, (rem % 3600) \div 60, rem % 60>>]

(* The calendar in which genTime is written (external).                    *)
Leap(y) == y % 4 = 0 /\ (y % 100 # 0 \/ y % 400 = 0)
DaysBefore(y, m) ==
  <<0, 31, 59, 90, 120, 151, 181, 212, 243, 273, 304, 334, 365>>[m]
    + IF m > 2 /\ Leap(y) THEN 1 ELSE 0
DaysIn(y, m) == DaysBefore(y, m + 1) - DaysBefore(y, m)

Second(days, h, i, s) == 86400 * days + 3600 * h + 60 * i + s
ShownAs(days, date) ==
  /\ civil(days) = date
  /\ days < 24855 =>
       \A h \in {0, 23} : \A i \in {0, 59} : \A s \in {0, 59} :
         format_unix_utc(Second(days, h, i, s)) = [date |-> date, clock |-> <<h, i, s>>]

-----------------------------------------------------------------------------
(* Bundles: a sequence of members [name, value], and a record of values.   *)
(* Of a value the type matters, and whether it is "", 0 or [].             *)

Null == [type |-> "null", empty |-> TRUE]
Fields == <<"id", "hash", "hash_algorithm", "batch_id", "merkle_root", "token", "token_format",
            "tsa_serial", "provider", "anchored_at", "client_ref", "description",
            "merkle_algorithm", "leaf_index", "tree_size", "proof_path", "archive_stamps">>
TypeOf(f) ==
  IF f \in {"leaf_index", "tree_size"} THEN "number"
  ELSE IF f \in {"proof_path", "archive_stamps"} THEN "list" ELSE "string"
Optional == {"client_ref", "description", "merkle_algorithm", "tree_size"}
Default(f) == IF f \in Optional THEN Null ELSE [type |-> TypeOf(f), empty |-> TRUE]

(* serde_json::from_str: an unknown member is ignored, a member given      *)
(* twice or with a value of another type is an error, and hash must be     *)
(* there.                                                                  *)
from_json(members) ==
  LET given(f) == {k \in DOMAIN members : members[k].name = f}
      Fits(f, v) == v.type = TypeOf(f) \/ (f \in Optional /\ v = Null)
      bad == {f \in ToSet(Fields) : \/ Cardinality(given(f)) > 1
                                   \/ \E k \in given(f) : ~Fits(f, members[k].value)}
  IN  IF bad # {} \/ given("hash") = {} THEN None
      ELSE [f \in ToSet(Fields) |->
              IF given(f) = {} THEN Default(f) ELSE members[Min(given(f))].value]

(* An answer of the service is made a serde_json::Value first, where the   *)
(* last of the members with a name is the one that is kept.                *)
into_json(members) ==
  FlattenSeq([k \in DOMAIN members |->
                IF \E j \in DOMAIN members : j > k /\ members[j].name = members[k].name
                THEN <<>> ELSE <<members[k]>>])

(* What write_proof leaves out, and the members of the rest in order.      *)
NothingSkipped(p, f) == FALSE
SkipSerializing(p, f) == f \in Optional \union {"archive_stamps"} /\ p[f] = Default(f)
to_json(p) ==
  FlattenSeq([k \in DOMAIN Fields |->
                IF SkipSerializing(p, Fields[k]) THEN <<>>
                ELSE <<[name |-> Fields[k], value |-> p[Fields[k]]]>>])

is_pending(p) == p["merkle_root"].empty \/ p["token"].empty

-----------------------------------------------------------------------------

ConvInit ==
  /\ kind \in {"hex", "base64", "integer", "bundle", "year"}
  /\ text = <<>> /\ year = 1970 /\ newYear = 0

Extend ==
  /\ kind # "year" /\ Len(text) < Longest[kind]
  /\ \E c \in Alphabet[kind] : text' = Append(text, c)
  /\ UNCHANGED <<kind, year, newYear>>

NextYear ==
  /\ kind = "year" /\ year < LastYear
  /\ year' = year + 1
  /\ newYear' = newYear + DaysBefore(year, 13)
  /\ UNCHANGED <<kind, text>>

ConvNext == Extend \/ NextYear

ConvSpec == ConvInit /\ [][ConvNext]_convVars

-----------------------------------------------------------------------------
(* Properties. *)

(* The fold of a proof decodes hashes that the document check compares as  *)
(* texts, in either case, and that the user may have typed.  Two such      *)
(* texts are the same bytes exactly when they are the same text but for    *)
(* case and for plus signs in the place of zeros: a text that decodes is,  *)
(* in either case, the hex of its bytes, when a plus sign is read as a     *)
(* zero.  A text of hex digits decodes, and only a character of several    *)
(* bytes makes decoding panic.                                             *)
HexMeansBytes ==
  kind = "hex" =>
    LET bytes == hex_decode(text)
        zeros == [k \in DOMAIN text |-> IF text[k] = <<43>> THEN <<48>> ELSE text[k]]
    IN  /\ bytes \notin {None, Panics} => to_ascii_lowercase(zeros) = hex_encode(bytes)
        /\ bytes = Panics => \E k \in DOMAIN text : Len(text[k]) > 1
        /\ Len(text) % 2 = 0 /\ (\A k \in DOMAIN text : is_ascii_hexdigit(text[k])) =>
             bytes \notin {None, Panics}

(* A hash given by the user is accepted exactly when it is the hex of a    *)
(* digest between white space, and then submitted as hash_file would have  *)
(* written it: one text for one digest.                                    *)
NormalizedIsCanonical ==
  kind = "hex" =>
    LET normal == normalize_sha256_hex(text)
        digest == hex_decode(trim(text))
        typed == digest \notin {None, Panics} /\ <<43>> \notin ToSet(text)
    IN  IF normal = None THEN ~(typed /\ Len(digest) = DigestSize)
        ELSE typed /\ Len(digest) = DigestSize /\ normal = hex_encode(digest)

(* The service that undoes the escapes reads the id back, whatever is in   *)
(* it, and the id is one segment of the path, unless it is one dot or two. *)
(* These are left as they are, and with them the request is for another    *)
(* path; escapes that make a dot do not come about, nor do those in an id. *)
IdIsOneSegment ==
  kind \in {"hex", "base64"} =>
    LET s == urlencode(text)
        read == FoldLeft(ReadByte, [id |-> <<>>, escape |-> <<>>], s)
    IN  /\ read = [id |-> Bytes(text), escape |-> <<>>]
        /\ IsSegment(s) <=> Bytes(text) \notin {<<46>>, <<46, 46>>}

(* decode_base64 gives the bytes whose bits are the bits of the digits up  *)
(* to the first padding, in order, with what is left of a last byte        *)
(* dropped, however narrow its accumulator; and fails exactly when there   *)
(* is a foreign byte before the padding.  An empty text is no token.       *)
Base64Agrees ==
  kind = "base64" =>
    LET s == Bytes(text)
        pads == {k \in DOMAIN s : s[k] = Equals}
        before == IF pads = {} THEN s ELSE SubSeq(s, 1, Min(pads) - 1)
        v == FlattenSeq([k \in DOMAIN before |->
                           IF before[k] \in Skipped THEN <<>> ELSE <<SextetOf(before[k])>>])
        Byte(k) ==
          LET j == (4 * k) \div 3 IN ((64 * v[j + 1] + v[j + 2]) \div 4^(2 - (k % 3))) % 256
    IN  /\ decode_base64(text) =
             IF None \in ToSet(v) THEN None
             ELSE [k \in 1 .. (6 * Len(v)) \div 8 |-> Byte(k - 1)]
        /\ decode_token(text) = None <=> text = <<>> \/ None \in ToSet(v)

(* int_to_decimal writes the number of its bytes, whatever their count:    *)
(* digits without a leading zero, which have the remainder of the bytes by *)
(* coprime moduli whose product no input reaches.                          *)
DecimalAgrees ==
  kind = "integer" =>
    LET bytes == Bytes(text)
        digits == int_to_decimal(bytes)
    IN  /\ \A k \in DOMAIN digits : digits[k] \in 0 .. 9
        /\ Len(digits) > 1 => digits[1] # 0
        /\ \A m \in {2^22, 2^22 - 1, 2^22 - 3, 2^22 - 5} :
             Remainder(digits, 10, m) = Remainder(bytes, 256, m)

(* The time that verify prints is the one that the authority wrote: every  *)
(* day of every year comes out as its date, and the seconds of a day as    *)
(* their time (for the days whose seconds fit 31 bits).                    *)
CalendarAgrees ==
  kind = "year" =>
    \A m \in 1 .. 12 : \A d \in 1 .. DaysIn(year, m) :
      ShownAs(newYear + DaysBefore(year, m) + d - 1, [year |-> year, month |-> m, day |-> d])

(* A bundle that the service hands out and anchor saves is read back as    *)
(* what was handed out, pending or not, and with the same construction: a  *)
(* bundle that names none is a legacy one for every reader, so none may be *)
(* written for it, not even null, which would be foreign to other tools.   *)
BundleRoundTrips ==
  kind = "bundle" /\ from_json(into_json(text)) # None =>
    LET given == into_json(text)
        p == from_json(given)
        saved == to_json(p)
        Named(f, members) == \E k \in DOMAIN members : members[k].name = f /\ members[k].value # Null
    IN  /\ from_json(saved) = p
        /\ \A k \in DOMAIN saved : saved[k].value # Null
        /\ \A f \in Optional : Named(f, saved) <=> Named(f, given)
        /\ ~is_pending(p) => Named("merkle_root", given) /\ Named("token", given)

=============================================================================
