------------------------------ MODULE Messages ------------------------------
(***************************************************************************)
(* The messages a session parses: the share (0x27) with its optional       *)
(* sections, the job-validation reply (0x50), the coinbaser request (0x10) *)
(* and the coinbaser list.  A message is a sequence of bytes read from the *)
(* front; fixed fields that stand together are one field, and their widths *)
(* are constants.  What fails to parse is Malformed.                       *)
(***************************************************************************)
EXTENDS Integers, Sequences, SequencesExt

CONSTANTS
    HEAD,          \* a share's fixed fields before the extranonce (16)
    EXTRANONCE,    \* EXTRANONCE_LEN
    RESERVED,      \* 4
    SEAL,          \* ntime and nonce of the BLAKE2b section (16)
    TIME,          \* u32
    JOB,           \* fixed fields of the job section (67)
    HASH,          \* 32
    MAX_USERNAME,
    REQUEST,       \* a coinbaser request before its END (40)
    MAX_OUTPUTS, MIN_SCRIPT, MAX_SCRIPT,
    SATS,          \* u64
    Malformed      \* Err

END == 254
SUB_COINBASER_REQUEST == 16
SUB_POW == 39
SUB_JOB_VALIDATION == 80
POW_ALGO_BLAKE2B == 1

ASSUME MessagesAssumption ==
    {HEAD, EXTRANONCE, RESERVED, SEAL, TIME, JOB, HASH, MAX_USERNAME, REQUEST,
     MAX_OUTPUTS, MIN_SCRIPT, MAX_SCRIPT, SATS} \subseteq Nat \ {0}

-----------------------------------------------------------------------------
(* Cursor *)

Leading(s, n) == SubSeq(s, 1, n)
Rest(s, n) == SubSeq(s, n + 1, Len(s))

\* Cursor::take fails rather than read past the end.
Short(s, n) == Len(s) < n

Le16(n) == <<n % 256, n \div 256>>
FromLe16(s) == s[1] + 256 * s[2]

\* Cursor::cstr: where the terminator is, within max + 1 bytes; 0 if nowhere.
Terminator(s, max) ==
    LET zeros == {i \in DOMAIN s : i <= max + 1 /\ s[i] = 0}
    IN  IF zeros = {} THEN 0 ELSE CHOOSE i \in zeros : \A j \in zeros : i <= j

-----------------------------------------------------------------------------
(* PowSubmit. An option is a sequence of none or one. *)

Chain(seqs) == FoldLeft(LAMBDA a, s : a \o s, << >>, seqs)

\* PowSubmit::encode: the time goes out with the BLAKE2b section only.
EncodePow(s) ==
    s.head \o <<EXTRANONCE>> \o s.extranonce
    \o Leading(s.username, IF Len(s.username) > MAX_USERNAME THEN MAX_USERNAME ELSE Len(s.username))
    \o <<0>> \o s.reserved
    \o Chain([i \in DOMAIN s.blake2b |->
                <<3, POW_ALGO_BLAKE2B>> \o s.blake2b[i]
                \o Chain([k \in DOMAIN s.time |-> <<4>> \o s.time[k]])])
    \o Chain([i \in DOMAIN s.job |->
                <<1>> \o s.job[i].head \o <<Len(s.job[i].branches)>> \o Chain(s.job[i].branches)])
    \o Chain([i \in DOMAIN s.coinbase |->
                LET c == s.coinbase[i] IN
                <<2, c.id>> \o Le16(Len(c.coinb1)) \o Le16(Len(c.coinb2)) \o c.coinb1 \o c.coinb2])
    \o <<END>>

\* How long the section at the front of m is, tag included, as far as it can
\* be told from what is there.
LengthOf(m) ==
    CASE Head(m) = 1 -> IF Short(m, 2 + JOB) THEN 2 + JOB ELSE 2 + JOB + m[2 + JOB] * HASH
      [] Head(m) = 2 -> IF Short(m, 6) THEN 6
                        ELSE 6 + FromLe16(SubSeq(m, 3, 4)) + FromLe16(SubSeq(m, 5, 6))
      [] Head(m) = 3 -> 2 + SEAL
      [] Head(m) = 4 -> 1 + TIME

\* The share with the section's fields set; a later section replaces an
\* earlier one of its kind.
WithSection(s, m) ==
    CASE Head(m) = 1 ->
           [s EXCEPT !.job = <<[head |-> SubSeq(m, 2, 1 + JOB),
                                branches |-> [i \in 1..m[2 + JOB] |->
                                   SubSeq(m, 3 + JOB + (i - 1) * HASH, 2 + JOB + i * HASH)]]>>]
      [] Head(m) = 2 ->
           LET l1 == FromLe16(SubSeq(m, 3, 4)) IN
           [s EXCEPT !.coinbase = <<[id |-> m[2], coinb1 |-> SubSeq(m, 7, 6 + l1),
                                     coinb2 |-> SubSeq(m, 7 + l1, LengthOf(m))]>>]
      [] Head(m) = 3 -> [s EXCEPT !.blake2b = <<SubSeq(m, 3, 2 + SEAL)>>]
      [] Head(m) = 4 -> [s EXCEPT !.time = <<SubSeq(m, 2, 1 + TIME)>>]

RECURSIVE Sections(_, _), SectionsToTheEnd(_, _)
\* Mutant of Sections: the end of the bytes is taken for the terminator.
SectionsToTheEnd(s, m) ==
    IF m = << >> \/ Head(m) = END THEN s
    ELSE IF Head(m) \notin 1..4 \/ Short(m, LengthOf(m)) THEN Malformed
    ELSE SectionsToTheEnd(WithSection(s, m), Rest(m, LengthOf(m)))

\* PowSubmit::decode's loop: sections in any order up to the terminator, and
\* what follows it is padding.
Sections(s, m) ==
    IF m = << >> THEN Malformed
    ELSE IF Head(m) = END THEN s
    ELSE IF Head(m) \notin 1..4 \/ Short(m, LengthOf(m)) THEN Malformed
    ELSE IF Head(m) = 3 /\ m[2] # POW_ALGO_BLAKE2B THEN Malformed
    ELSE Sections(WithSection(s, m), Rest(m, LengthOf(m)))

\* PowSubmit::decode. The username is ASCII here, which from_utf8_lossy
\* leaves as it is.
DecodePow(m) ==
    LET fixed == HEAD + 1 + EXTRANONCE
        after == Rest(m, fixed)
        nul == Terminator(after, MAX_USERNAME)
        tail == Rest(after, nul)
    IN  IF \/ Short(m, fixed) \/ m[HEAD + 1] # EXTRANONCE
           \/ nul = 0 \/ Short(tail, RESERVED)
        THEN Malformed
        ELSE Sections([head |-> Leading(m, HEAD),
                       extranonce |-> SubSeq(m, HEAD + 2, fixed),
                       username |-> Leading(after, nul - 1),
                       reserved |-> Leading(tail, RESERVED),
                       blake2b |-> << >>, time |-> << >>, job |-> << >>,
                       coinbase |-> << >>],
                      Rest(tail, RESERVED))

-----------------------------------------------------------------------------
(* JobValidationReply and parse_client *)

RECURSIVE Txns(_, _)
\* read_txn_list: n transactions, each behind its three-byte length.
Txns(n, m) ==
    IF n = 0 THEN << >>
    ELSE LET len == FromLe16(m) + 65536 * m[3]
         IN  IF Short(m, 3) THEN Malformed
             ELSE IF Short(m, 3 + len) THEN Malformed
             ELSE LET more == Txns(n - 1, Rest(m, 3 + len))
                  IN  IF more = Malformed THEN Malformed
                      ELSE <<SubSeq(m, 4, 3 + len)>> \o more

\* JobValidationReply::decode; an error status carries no list. Short ids
\* (0x90) are not asked for and never used: only that they parse matters.
DecodeReply(m) ==
    IF Short(m, 3) \/ m[1] \notin 144..146 THEN Malformed
    ELSE IF m[3] # 1 THEN [kind |-> m[1], job |-> m[2], status |-> m[3], txns |-> << >>]
    ELSE IF Short(m, 5) THEN Malformed
    ELSE LET n == FromLe16(SubSeq(m, 4, 5))
             list == IF m[1] = 144
                     THEN IF Short(m, 5 + 6 * n + (IF n > 0 THEN HASH ELSE 0))
                          THEN Malformed ELSE << >>
                     ELSE Txns(n, Rest(m, 5))
         IN  IF list = Malformed THEN Malformed
             ELSE [kind |-> m[1], job |-> m[2], status |-> m[3], txns |-> list]

\* parse_client: by sub-command; one it does not know is no error.
ParseClient(m) ==
    IF m = << >> THEN Malformed
    ELSE LET body == Tail(m) IN
         CASE Head(m) = SUB_COINBASER_REQUEST ->
                IF Short(body, REQUEST + 1) THEN Malformed
                ELSE IF body[REQUEST + 1] # END THEN Malformed
                ELSE Leading(body, REQUEST)
           [] Head(m) = SUB_POW -> DecodePow(body)
           [] Head(m) = SUB_JOB_VALIDATION -> DecodeReply(body)
           [] OTHER -> "unknown"

\* How a gateway (external) writes a reply with its transactions.
EncodeReply(kind, job, txns) ==
    <<SUB_JOB_VALIDATION, kind, job, 1>> \o Le16(Len(txns))
    \o Chain([i \in DOMAIN txns |-> Le16(Len(txns[i])) \o <<0>> \o txns[i]])

-----------------------------------------------------------------------------
(* The coinbaser list: an output is its sats (a field) and its script *)

EncodeOutput(o) == o.sats \o <<Len(o.script)>> \o o.script

\* Mutant of EncodeV2: one output short of the limit.
EncodeV2OneLess(id, outputs) ==
    <<id>> \o Chain([i \in 1..(IF Len(outputs) >= MAX_OUTPUTS THEN MAX_OUTPUTS - 1 ELSE Len(outputs))
                       |-> EncodeOutput(outputs[i])])

\* encode_v2: at most MAX_OUTPUTS go out.
EncodeV2(id, outputs) ==
    <<id>> \o Chain([i \in 1..(IF Len(outputs) > MAX_OUTPUTS THEN MAX_OUTPUTS ELSE Len(outputs))
                       |-> EncodeOutput(outputs[i])])

RECURSIVE OutputsIn(_, _)
OutputsIn(m, n) ==
    IF m = << >> THEN << >>
    ELSE IF Short(m, SATS + 1) \/ n >= MAX_OUTPUTS THEN Malformed
    ELSE LET len == m[SATS + 1] IN
         IF len \notin MIN_SCRIPT..MAX_SCRIPT \/ Short(m, SATS + 1 + len) THEN Malformed
         ELSE LET more == OutputsIn(Rest(m, SATS + 1 + len), n + 1)
              IN  IF more = Malformed THEN Malformed
                  ELSE <<[sats |-> Leading(m, SATS),
                          script |-> SubSeq(m, SATS + 2, SATS + 1 + len)]>> \o more

\* decode_v2 (the gateway's reading of it), the id set apart.
DecodeV2(m) == IF m = << >> THEN Malformed ELSE OutputsIn(Tail(m), 0)
=============================================================================
