----------------------------- MODULE Translation -----------------------------
(***************************************************************************)
(* What a provider agent does to the bytes of one request, which           *)
(* ProviderRelay.tla treats as an id: the form of an HTTP request becomes  *)
(* a Dubbo package (tokenizer.c), Dubbo's result an HTTP response          *)
(* (p_on_read_results), each framed by a length and the request id         *)
(* (utils.c).                                                              *)
(*                                                                         *)
(* The form lies in raw_buf1 with other bytes behind it: the next frame,   *)
(* or what earlier ones left there.  The SSE build looks at WIDTH bytes at *)
(* a time and clears the WIDTH bytes behind the form while it does so; the *)
(* serial one looks at single bytes.  One step is one block looked at.     *)
(*                                                                         *)
(* Bytes are their ASCII codes, and the literals of the package (version,  *)
(* null, the braces around the path) single negative numbers.              *)
(***************************************************************************)
EXTENDS Integers, Sequences, FiniteSets, SequencesExt

CONSTANTS
    WIDTH,          \* bytes in a vector register: 16
    OFFSETS,        \* short off[32]
    PACKAGE,        \* malloc(4096) for dubbo_package
    BYTE,           \* values of a byte: 256
    post_keys,      \* the four keys of interest
    Forms,          \* sequences of pairs [key, val]: what clients may post
    Behind,         \* what can lie behind the form, WIDTH bytes each
    Builds,         \* subset of {"serial", "sse4"}: what CMakeLists.txt can make of the agents
    HashLengths,    \* how long a result can be
    Ids             \* request ids

EQ == 61
AMP == 38
PERCENT == 37
QUOTE == 34
VERSION == -1
NULLS == -2
PATH == -3
END == -4
QUOTE_NL == -5

ASSUME SizesAssumption ==
    /\ WIDTH \in Nat \ {0} /\ WIDTH = 2 * (WIDTH \div 2)
    /\ BYTE \in Nat /\ BYTE > 1 /\ OFFSETS \in Nat \ {0}
    /\ Builds \subseteq {"serial", "sse4"}
    /\ Behind \subseteq [1 .. WIDTH -> Nat]

ASSUME KeysAssumption ==
    /\ Len(post_keys) = 4 /\ post_keys \in Seq(Seq(Nat))
    /\ \A m, n \in 1 .. 4 : m # n => post_keys[m] # post_keys[n]

VARIABLES
    build, form, frame,     \* the input
    behind,                 \* what lies behind it in raw_buf1
    str,                    \* raw_buf1 + 12
    restore_buf,
    pc,
    off, i,                 \* simd_split_efficient
    j, pair, last_seek, seek,   \* serialize_str
    res,                    \* the package without its header
    header,                 \* generate_header: the length and the id in it
    result,                 \* Dubbo's response: the length in its header, id, hash
    response                \* the frame sent back

inputVars == <<build, form, frame, behind>>
splitVars == <<restore_buf, off, i>>
fieldVars == <<j, pair, last_seek, seek>>
outVars == <<header, result, response>>
vars == <<inputVars, str, pc, splitVars, fieldVars, res, outVars>>
------------------------------------------------------------------------------
(* The input *)

hex2int(ch) == IF ch < 65 THEN ch - 48 ELSE 10 + (IF ch < 97 THEN ch - 65 ELSE ch - 97)

\* sent is val with some of its bytes escaped: from[k] is where the k-th byte of val
\* begins in sent.
IsEscaped(val, sent, from) ==
    /\ from[1] = 1
    /\ from[Len(val) + 1] = Len(sent) + 1
    /\ \A k \in 1 .. Len(val) :
         \/ /\ sent[from[k]] # PERCENT
            /\ val[k] = sent[from[k]]
            /\ from[k + 1] = from[k] + 1
         \/ /\ sent[from[k]] = PERCENT
            /\ from[k + 1] = from[k] + 3
            /\ val[k] = hex2int(sent[from[k] + 1]) * 16 + hex2int(sent[from[k] + 2])

FormPairs == [key : Seq(Nat), val : Seq(Nat), sent : Seq(Nat)]

\* key=val&key=val..., the values as the client has escaped them.
Piece(f, p) == (IF p = 1 THEN <<>> ELSE <<AMP>>) \o f[p].key \o <<EQ>> \o f[p].sent
Flat(f) == FlattenSeq([p \in 1 .. Len(f) |-> Piece(f, p)])

Memory(f, rest) == LET all == Flat(f) \o rest IN [n \in 0 .. Len(all) - 1 |-> all[n + 1]]

\* What a length field can hold.
FIELD == BYTE * BYTE * BYTE * BYTE

int_to_four_char(n) ==
    <<(n \div (BYTE * BYTE * BYTE)) % BYTE, (n \div (BYTE * BYTE)) % BYTE, (n \div BYTE) % BYTE, n % BYTE>>

four_char_to_int(b) == b[1] * (BYTE * BYTE * BYTE) + b[2] * (BYTE * BYTE) + b[3] * BYTE + b[4]

\* The literals of a package: version, null, two quotes per field, the path's two.
LITERALS == 4 + 2 * Len(post_keys)

\* What a package takes beside the members of res: the header's 16 bytes, and the
\* lengths of the literals less one each (8, 5, 9, 3, and 2 at the end of each field).
OVERHEAD == 16 + 7 + 4 + 8 + 2 + Len(post_keys)

ASSUME PackageAssumption == PACKAGE \in Nat

\* Separators inside a key or a value are escaped, and names of Java interfaces need
\* no escapes.  (A length is a short; a package is at most twice as long as its form,
\* but for its literals.)
ASSUME FormsAssumption ==
    \A f \in Forms :
        /\ f \in Seq(FormPairs) /\ Len(f) > 0
        /\ 2 * Len(Flat(f)) + LITERALS < FIELD
        /\ \A p \in 1 .. Len(f) :
             /\ \A n \in 1 .. Len(f[p].key) : f[p].key[n] # EQ
             /\ \A n \in 1 .. Len(f[p].sent) : f[p].sent[n] # AMP
             /\ f[p].key = post_keys[1] => f[p].sent = f[p].val

ASSUME EscapesAssumption ==
    \A q \in UNION {{f[p] : p \in 1 .. Len(f)} : f \in Forms} :
        \E from \in [1 .. Len(q.val) + 1 -> 1 .. Len(q.sent) + 1] : IsEscaped(q.val, q.sent, from)

Nothing == [length |-> <<>>, id |-> -1]

\* A whole frame is at the front of raw_buf1 (p_read_connection_data_http_req).
Init ==
    /\ build \in Builds
    /\ form \in Forms
    /\ \E id \in Ids : frame = [length |-> int_to_four_char(Len(Flat(form))), id |-> id]
    /\ behind \in Behind
    /\ str = Memory(form, behind)
    /\ restore_buf = <<>>
    /\ pc = "split"
    /\ off = <<>> /\ i = 0
    /\ j = 1 /\ pair = 0 /\ last_seek = 0 /\ seek = 0
    /\ res = <<>>
    /\ header = Nothing /\ result = Nothing /\ response = Nothing

len == four_char_to_int(frame.length)
------------------------------------------------------------------------------
(* simd_split_efficient: sse4_split_efficient or serial_split *)

Block == IF build = "serial" THEN 1 ELSE WIDTH

\* Mutant: a match in the upper half is counted from the start of that half.
__tzcnt_u32_using_popcnt_cmpgt_NoBase(mask) ==
    LET half == WIDTH \div 2
        low == {d \in mask : d < half}
        bits == IF low # {} THEN low ELSE {d - half : d \in mask}
    IN Cardinality({n \in 1 .. half : \A d \in bits : d >= n})

\* How many of the first 1, 2, ..., half bits of the lower half, or of the upper
\* one if that is empty, are all zero.
__tzcnt_u32_using_popcnt_cmpgt(mask) ==
    LET half == WIDTH \div 2
        low == {d \in mask : d < half}
        bits == IF low # {} THEN low ELSE {d - half : d \in mask}
    IN (IF low # {} THEN 0 ELSE half)
       + Cardinality({n \in 1 .. half : \A d \in bits : d >= n})

\* How far a look at the block at n takes the search for ch.
advance(n, ch) ==
    LET mask == {d \in 0 .. Block - 1 : str[n + d] = ch}
    IN CASE mask = {} -> Block
         [] mask # {} /\ build = "sse4" -> __tzcnt_u32_using_popcnt_cmpgt(mask)
         [] mask # {} /\ build = "serial" -> 0

\* The bytes behind the form are put aside and cleared.
split_begin ==
    /\ pc = "split"
    /\ restore_buf' = IF build = "sse4" THEN [d \in 0 .. WIDTH - 1 |-> str[len + d]] ELSE <<>>
    /\ str' = IF build = "serial" THEN str ELSE [n \in DOMAIN str |-> IF n >= len THEN 0 ELSE str[n]]
    /\ off' = <<-1>>
    /\ i' = 0
    /\ pc' = "eq"
    /\ UNCHANGED <<inputVars, fieldVars, res, outVars>>

\* off[next] = n; next++, where the array has room; anything may follow a write
\* behind it.
PutOffset(n, then) ==
    IF Len(off) < OFFSETS THEN off' = Append(off, n) /\ pc' = then
    ELSE pc' = "wild" /\ UNCHANGED off

split_eq ==
    /\ pc = "eq"
    /\ i' = i + advance(i, EQ)
    /\ IF i' < i + Block THEN PutOffset(i', "amp") ELSE UNCHANGED <<pc, off>>
    /\ UNCHANGED <<inputVars, str, restore_buf, fieldVars, res, outVars>>

\* Mutant: the bytes behind the form stay cleared.
restored_Not == str

restored ==
    IF build = "sse4" THEN [n \in DOMAIN str |-> IF n >= len THEN restore_buf[n - len] ELSE str[n]] ELSE str

split_amp ==
    LET to == i + advance(i, AMP) IN
    /\ pc = "amp"
    /\ i' = to
    /\ IF to < i + Block \/ to >= len
       THEN PutOffset(IF to < len THEN to ELSE len, IF to >= len THEN "field" ELSE "eq")
       ELSE UNCHANGED <<pc, off>>
    /\ str' = IF to >= len THEN restored ELSE str
    /\ res' = IF to >= len THEN <<VERSION>> ELSE res
    /\ UNCHANGED <<inputVars, restore_buf, fieldVars, outVars>>
------------------------------------------------------------------------------
(* generate_body, serialize_str *)

Bytes(from, to) == [n \in 1 .. to - from |-> str[from + n - 1]]

\* The p-th pair of the offsets: the key, and where its value begins and ends.
Key(p) == Bytes(off[2 * p - 1] + 1, off[2 * p])
val_off_beg(p) == off[2 * p] + 1
val_off_end(p) == off[2 * p + 1]
Pairs == 1 .. Len(off) \div 2

\* Mutant: a key that begins with the one looked for is taken for it.
Matches_Prefix(p, k) == Len(Key(p)) >= Len(k) /\ SubSeq(Key(p), 1, Len(k)) = k

\* post_keys_size and strncmp.
Matches(p, k) == Key(p) = k

FirstMatch(k) == {p \in Pairs : Matches(p, k) /\ \A q \in 1 .. p - 1 : ~Matches(q, k)}

\* After the fourth field comes the path; "null" stands behind the first.
NextField(body) ==
    /\ j' = j + 1
    /\ res' = IF j = 1 THEN Append(body, NULLS) ELSE body
    /\ pc' = IF j = Len(post_keys) THEN "path" ELSE "field"

serialize_str_missing ==
    /\ pc = "field"
    /\ FirstMatch(post_keys[j]) = {}
    /\ NextField(res)
    /\ UNCHANGED <<inputVars, str, splitVars, pair, last_seek, seek, outVars>>

serialize_str_found ==
    /\ pc = "field"
    /\ \E p \in FirstMatch(post_keys[j]) :
         /\ pair' = p
         /\ seek' = val_off_beg(p) /\ last_seek' = val_off_beg(p)
    /\ res' = Append(res, QUOTE)
    /\ pc' = "value"
    /\ UNCHANGED <<inputVars, str, splitVars, j, outVars>>

\* if (seek > val_off_end) { seek = val_off_end; }
clamped(n) == IF n > val_off_end(pair) THEN val_off_end(pair) ELSE n

\* One block of the search for the next escape; when the search is over, what was
\* passed over is copied and the escape decoded.
serialize_str_value ==
    LET to == seek + advance(seek, PERCENT)
        at == clamped(to)
        plain == res \o Bytes(last_seek, at)
    IN
    /\ pc = "value"
    /\ seek < val_off_end(pair)
    /\ IF to = seek + Block /\ to < val_off_end(pair)
       THEN seek' = to /\ UNCHANGED <<last_seek, res>>
       ELSE IF at # val_off_end(pair)
       THEN /\ res' = Append(plain, hex2int(str[at + 1]) * 16 + hex2int(str[at + 2]))
            /\ seek' = at + 3 /\ last_seek' = at + 3
       ELSE res' = plain /\ seek' = at /\ last_seek' = at
    /\ UNCHANGED <<inputVars, str, pc, splitVars, j, pair, outVars>>

serialize_str_end ==
    /\ pc = "value"
    /\ seek >= val_off_end(pair)
    /\ NextField(Append(res, QUOTE_NL))
    /\ UNCHANGED <<inputVars, str, splitVars, pair, last_seek, seek, outVars>>

\* Mutant: the path runs to the end of the form.
serialize_path_dict_ToEnd ==
    LET P == FirstMatch(post_keys[1]) IN
    IF P = {} THEN res
    ELSE LET p == CHOOSE q \in P : TRUE
         IN res \o <<PATH>> \o Bytes(val_off_beg(p), len) \o <<END>>

\* serialize_path_dict: the interface once more, as it stands in the form.
serialize_path_dict ==
    LET P == FirstMatch(post_keys[1]) IN
    IF P = {} THEN res
    ELSE LET p == CHOOSE q \in P : TRUE
         IN res \o <<PATH>> \o Bytes(val_off_beg(p), val_off_end(p)) \o <<END>>

\* generate_header, and the package is written to Dubbo.
generate_header ==
    /\ pc = "path"
    /\ res' = serialize_path_dict
    /\ header' = [length |-> int_to_four_char(Len(serialize_path_dict)), id |-> frame.id]
    /\ pc' = "at Dubbo"
    /\ UNCHANGED <<inputVars, str, splitVars, fieldVars, result, response>>
------------------------------------------------------------------------------
(* The way back *)

\* Dubbo's result: type, line end, the hash, line end; the id is the request's.
dubbo_answers(n) ==
    /\ pc = "at Dubbo"
    /\ result' = [length |-> int_to_four_char(n + 3), id |-> header.id, hash |-> n]
    /\ pc' = "result"
    /\ UNCHANGED <<inputVars, str, splitVars, fieldVars, res, header, response>>

BLANK == 32

\* Mutant: ten is taken for a number of one digit.
int_to_string_Ten(n) ==
    IF n <= 10 THEN <<48 + n, BLANK>> ELSE <<48 + (n \div 10), 48 + (n - 10 * (n \div 10))>>

\* The two places the response template leaves for Content-Length.
int_to_string(n) ==
    IF n < 10 THEN <<48 + n, BLANK>> ELSE <<48 + (n \div 10), 48 + (n - 10 * (n \div 10))>>

response_template_len == 39

\* The length of a response, its template included, has its place in the frame.
ASSUME HashAssumption == \A n \in HashLengths : n \in Nat /\ response_template_len + n < FIELD

p_on_read_results ==
    LET hash_length == four_char_to_int(result.length) - 3 IN
    /\ pc = "result"
    /\ response' = [length |-> int_to_four_char(response_template_len + hash_length), id |-> result.id,
                    content_length |-> int_to_string(hash_length), hash |-> hash_length]
    /\ pc' = "done"
    /\ UNCHANGED <<inputVars, str, splitVars, fieldVars, res, header, result>>

Step ==
    \/ split_begin \/ split_eq \/ split_amp
    \/ serialize_str_missing \/ serialize_str_found \/ serialize_str_value \/ serialize_str_end
    \/ generate_header \/ p_on_read_results

Next == Step \/ \E n \in HashLengths : dubbo_answers(n)

Spec == Init /\ [][Next]_vars

\* The agent's steps are one callback's, and Dubbo answers.
FairSpec == Spec /\ WF_vars(Next)
------------------------------------------------------------------------------
(* The reference: the pairs the form was made of *)

\* The value of the first pair with key k, quoted.
FirstPair(k) == {p \in 1 .. Len(form) : form[p].key = k /\ \A q \in 1 .. p - 1 : form[q].key # k}
Field(k) ==
    IF FirstPair(k) = {} THEN <<>>
    ELSE <<QUOTE>> \o form[CHOOSE p \in FirstPair(k) : TRUE].val \o <<QUOTE_NL>>

PathField ==
    LET f == Field(post_keys[1])
    IN IF f = <<>> THEN <<>> ELSE <<PATH>> \o SubSeq(f, 2, Len(f) - 1) \o <<END>>

Package ==
    <<VERSION>> \o Field(post_keys[1]) \o <<NULLS>> \o Field(post_keys[2]) \o Field(post_keys[3])
    \o Field(post_keys[4]) \o PathField

Splitting == pc \in {"eq", "amp"}
Packed == pc \in {"at Dubbo", "result", "done"}

\* The package Dubbo gets has the values of the four keys, unescaped, in Dubbo's
\* order whatever their order in the form, the request's id, and its own length,
\* in both builds and wherever blocks end (generate_res_in_place).
PackageRight ==
    Packed => /\ res = Package
              /\ header.id = frame.id
              /\ four_char_to_int(header.length) = Len(Package)

\* When the form has been split, the bytes behind it, which may be the next
\* request, are what they were (restore_buf).
NeighboursRestored == ~Splitting /\ pc # "wild" => str = Memory(form, behind)

RoomForPairs == Len(form) <= (OFFSETS - 1) \div 2
RoomForPackage == OVERHEAD + LITERALS + len + Len(PathField) <= PACKAGE

\* What the sizes of off[] and of dubbo_package are good for, which nothing in the
\* code asks of a form.  off[] also holds the -1 before the first key: it is overrun by
\* the forms of more than (OFFSETS - 1) \div 2 pairs and by no others, 15 and not the
\* 16 that generate_res_in_place has it for.  A package grows beyond its form by its
\* header, its literals and a second copy of the interface, and stays within
\* dubbo_package where these fit.
StaysInBounds ==
    /\ ~Splitting /\ pc # "split" => (pc = "wild" <=> ~RoomForPairs)
    /\ RoomForPackage => OVERHEAD + Len(res) <= PACKAGE

\* The number a client reads in two places that may end in a blank, if it is one.
Digit(ch) == ch \in 48 .. 57
ReadNumber(d) ==
    CASE Digit(d[1]) /\ Digit(d[2]) -> 10 * (d[1] - 48) + d[2] - 48
      [] Digit(d[1]) /\ d[2] = BLANK -> d[1] - 48
      [] OTHER -> -1

\* The response frame has the request's id, the length of what follows and, where
\* the template's two places are enough, a Content-Length that is the length of the
\* hash (p_on_read_results).
ResponseRight ==
    pc = "done" =>
        /\ response.id = frame.id
        /\ four_char_to_int(response.length) = response_template_len + result.hash
        /\ response.hash = result.hash
        /\ result.hash < 100 => ReadNumber(response.content_length) = result.hash

\* The translation comes to an end: no search runs on behind the form.
Translated == RoomForPairs ~> pc = "done"
==============================================================================
