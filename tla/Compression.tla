---------------------------- MODULE Compression ----------------------------
(***************************************************************************)
(* The code compressor of compression.c: compression_compress (sized by   *)
(* compressed_length, then a second pass that emits one Huffman code per  *)
(* longest matching key outside strings and 8 raw bits per character      *)
(* inside them) and compression_decompress (compression_init_state, then  *)
(* compression_decompress_incremental until it returns 0 or -1).           *)
(*                                                                         *)
(* Characters are one-character strings; a C string is a sequence of      *)
(* them (index 1 is string[0]).  The compressed buffer is its 4 header    *)
(* bytes and the body bits after them (body bit k is bit 32 + k, bit k%8  *)
(* of its byte, as set_bit and the readers address it).                   *)
(***************************************************************************)
EXTENDS Integers, Sequences, FiniteSets
LOCAL INSTANCE FiniteSetsExt

CONSTANTS Inputs,  \* the NUL-free strings compression_compress is given
          Ascii    \* the character set of the build: char -> 0..255

(* The table codes[NUM_CODES][2]: <<key, code>> in source order.  The    *)
(* backquote character is named "BQ" (the parser reads a backquote in a *)
(* string literal as the start of a comment).                              *)
Codes ==
  << <<<<"9">>, <<1, 0, 0, 1, 0, 0>>>>,
     <<<<"8">>, <<1, 0, 0, 1, 0, 1>>>>,
     <<<<"7">>, <<0, 1, 0, 0, 1, 1>>>>,
     <<<<"6">>, <<1, 0, 1, 0, 1, 0>>>>,
     <<<<"5">>, <<0, 1, 1, 0, 1, 1>>>>,
     <<<<"4">>, <<1, 0, 0, 1, 1, 0>>>>,
     <<<<"3">>, <<0, 1, 0, 1, 0, 1>>>>,
     <<<<"2">>, <<0, 1, 1, 0, 0, 0>>>>,
     <<<<"1">>, <<0, 1, 1, 1, 0, 1>>>>,
     <<<<"0">>, <<0, 1, 1, 0, 0, 1>>>>,
     <<<<"_">>, <<1, 0, 1, 1, 0, 0>>>>,
     <<<<",">>, <<1, 1, 1, 0, 1, 1>>>>,
     <<<<"BQ">>, <<1, 1, 0, 0, 1, 1>>>>,
     <<<<" ">>, <<1, 0, 1, 0, 1, 1>>>>,
     <<<<"'">>, <<1, 1, 0, 0, 0, 0>>>>,
     <<<<"\\">>, <<1, 1, 0, 0, 1, 0>>>>,
     <<<<"\"">>, <<1, 1, 1, 0, 0, 0>>>>,
     <<<<"#">>, <<1, 1, 0, 0, 0, 1>>>>,
     <<<<".">>, <<1, 1, 1, 0, 1, 0>>>>,
     <<<<">">>, <<1, 1, 0, 1, 1, 0>>>>,
     <<<<"<">>, <<1, 1, 0, 1, 0, 0>>>>,
     <<<<"=">>, <<1, 1, 0, 1, 0, 1>>>>,
     <<<<"/">>, <<1, 1, 0, 1, 1, 1>>>>,
     <<<<"*">>, <<1, 0, 1, 1, 0, 1>>>>,
     <<<<"-">>, <<1, 0, 1, 1, 1, 0>>>>,
     <<<<"+">>, <<1, 0, 1, 1, 1, 1>>>>,
     <<<<"n", "i", "l">>, <<0, 1, 1, 1, 1, 0>>>>,
     <<<<"c", "d", "r">>, <<0, 1, 1, 1, 1, 1>>>>,
     <<<<"c", "a", "r">>, <<1, 0, 1, 0, 0, 0>>>>,
     <<<<"c", "o", "n", "s">>, <<1, 0, 0, 0, 1, 0>>>>,
     <<<<"l", "e", "t">>, <<1, 0, 0, 0, 1, 1>>>>,
     <<<<"d", "e", "f", "i", "n", "e">>, <<0, 1, 0, 1, 1, 0>>>>,
     <<<<"p", "r", "o", "g", "n">>, <<0, 1, 0, 1, 1, 1>>>>,
     <<<<"q", "u", "o", "t", "e">>, <<0, 1, 0, 1, 0, 0>>>>,
     <<<<"l", "i", "s", "t">>, <<1, 0, 1, 0, 0, 1>>>>,
     <<<<"i", "f">>, <<0, 1, 1, 0, 1, 0>>>>,
     <<<<"l", "a", "m", "b", "d", "a">>, <<1, 0, 0, 1, 1, 1>>>>,
     <<<<"(", "(">>, <<0, 1, 1, 1, 0, 0>>>>,
     <<<<")", ")">>, <<1, 0, 0, 0, 0, 0>>>>,
     <<<<")">>, <<1, 0, 0, 0, 0, 1>>>>,
     <<<<"(">>, <<0, 1, 0, 0, 1, 0>>>>,
     <<<<"z">>, <<1, 1, 1, 1, 0, 1, 1>>>>,
     <<<<"y">>, <<0, 0, 0, 0, 1, 0>>>>,
     <<<<"x">>, <<1, 1, 1, 1, 1, 0, 0>>>>,
     <<<<"w">>, <<1, 1, 1, 1, 1, 0, 1>>>>,
     <<<<"v">>, <<0, 0, 0, 1, 0, 1>>>>,
     <<<<"u">>, <<1, 1, 1, 1, 1, 1, 0>>>>,
     <<<<"t">>, <<0, 0, 1, 1, 0, 0>>>>,
     <<<<"s">>, <<0, 0, 1, 1, 0, 1>>>>,
     <<<<"r">>, <<0, 0, 0, 0, 0, 0>>>>,
     <<<<"q">>, <<0, 0, 0, 0, 0, 1>>>>,
     <<<<"p">>, <<0, 0, 1, 0, 1, 1>>>>,
     <<<<"o">>, <<0, 1, 0, 0, 0, 0>>>>,
     <<<<"n">>, <<1, 1, 1, 1, 0, 1, 0>>>>,
     <<<<"m">>, <<1, 1, 1, 1, 0, 0, 0>>>>,
     <<<<"l">>, <<0, 0, 0, 0, 1, 1>>>>,
     <<<<"k">>, <<0, 0, 0, 1, 1, 0>>>>,
     <<<<"j">>, <<1, 1, 1, 1, 1, 1, 1>>>>,
     <<<<"i">>, <<0, 0, 1, 1, 1, 0>>>>,
     <<<<"h">>, <<0, 0, 1, 0, 1, 0>>>>,
     <<<<"g">>, <<0, 1, 0, 0, 0, 1>>>>,
     <<<<"f">>, <<1, 1, 1, 1, 0, 0, 1>>>>,
     <<<<"e">>, <<0, 0, 0, 1, 1, 1>>>>,
     <<<<"d">>, <<0, 0, 1, 1, 1, 1>>>>,
     <<<<"c">>, <<0, 0, 1, 0, 0, 0>>>>,
     <<<<"b">>, <<0, 0, 0, 1, 0, 0>>>>,
     <<<<"a">>, <<0, 0, 1, 0, 0, 1>>>> >>

NUM_CODES == Len(Codes)
ASSUME NUM_CODES = 67
Key(ix)  == Codes[ix][1]
Code(ix) == Codes[ix][2]

(* The whitespace the passes gobble, and what isspace() accepts (TLA+     *)
(* strings have no escape for vertical tab and form feed: they are "VT"   *)
(* and "FF" here).                                                         *)
Gobbled == {" ", "\n", "\t", "\r"}
IsSpace == Gobbled \cup {"VT", "FF"}

(* match_longest_key(&str[j]): the first entry whose key is the longest   *)
(* prefix of str from j, or -1.                                            *)
MatchLongestKey(str, j) ==
  LET fits == {ix \in 1..NUM_CODES :
                 /\ Len(Key(ix)) <= Len(str) - j + 1
                 /\ SubSeq(str, j, j + Len(Key(ix)) - 1) = Key(ix)}
      longest == Max({Len(Key(ix)) : ix \in fits})
  IN IF fits = {} THEN -1 ELSE Min({ix \in fits : Len(Key(ix)) = longest})

(* match_longest_code(src, 32 + start, 32 + total) over the body bits.    *)
MatchLongestCode(bits, start, total) ==
  LET fits == {ix \in 1..NUM_CODES :
                 /\ Len(Code(ix)) <= total - start
                 /\ \A b \in 1..Len(Code(ix)) : bits[start + b - 1] = Code(ix)[b]}
      longest == Max({Len(Code(ix)) : ix \in fits})
  IN IF fits = {} THEN -1 ELSE Min({ix \in fits : Len(Code(ix)) = longest})

(* The comment gobbler: the index of the next newline, or past the end.   *)
CommentEnd(str, i) ==
  LET nl == {k \in i..Len(str) : str[k] = "\n"}
  IN IF nl = {} THEN Len(str) + 1 ELSE Min(nl)

(* A string-mode character that closes the string: an unescaped quote.    *)
ClosesString(str, i) == str[i] = "\"" /\ str[i - 1] # "\\"

(***************************************************************************)
(* compressed_length: the bits the second pass will emit, or -1.          *)
(***************************************************************************)
(* Mutant: the length pass does not step back onto gobbled whitespace.   *)
RECURSIVE CompressedLengthFromNoBackup(_, _, _, _, _)
CompressedLengthFromNoBackup(str, i, string_mode, gobbling, comp_len) ==
  IF i > Len(str) THEN comp_len
  ELSE IF string_mode
  THEN CompressedLengthFromNoBackup(str, i + 1, ~ClosesString(str, i), gobbling, comp_len + 8)
  ELSE IF str[i] = ";"
  THEN CompressedLengthFromNoBackup(str, CommentEnd(str, i), string_mode, gobbling, comp_len)
  ELSE IF str[i] \in Gobbled
  THEN CompressedLengthFromNoBackup(str, i + 1, string_mode, TRUE, comp_len)
  ELSE LET ix == MatchLongestKey(str, i)
       IN IF ix = -1 THEN -1
          ELSE CompressedLengthFromNoBackup(str, i + Len(Key(ix)), str[i] = "\"", FALSE,
                                            comp_len + Len(Code(ix)))

RECURSIVE CompressedLengthFrom(_, _, _, _, _)
CompressedLengthFrom(str, i, string_mode, gobbling, comp_len) ==
  IF i > Len(str) THEN comp_len
  ELSE IF string_mode
  THEN CompressedLengthFrom(str, i + 1, ~ClosesString(str, i), gobbling, comp_len + 8)
  ELSE IF str[i] = ";"
  THEN CompressedLengthFrom(str, CommentEnd(str, i), string_mode, gobbling, comp_len)
  ELSE IF str[i] \in Gobbled
  THEN CompressedLengthFrom(str, i + 1, string_mode, TRUE, comp_len)
  ELSE LET j  == IF gobbling THEN i - 1 ELSE i
           ix == IF str[j] \in IsSpace THEN MatchLongestKey(<<" ">>, 1)
                 ELSE MatchLongestKey(str, j)
       IN IF ix = -1 THEN -1
          ELSE CompressedLengthFrom(str, j + Len(Key(ix)), str[j] = "\"", FALSE,
                                    comp_len + Len(Code(ix)))

compressed_length(str) == CompressedLengthFrom(str, 1, FALSE, FALSE, 0)


(* The 8 bits of a character, least significant first, and back.          *)
CharBits(c) == [k \in 1..8 |-> (Ascii[c] \div 2^(k - 1)) % 2]
ByteOf(bits, p) == LET B[k \in 0..8] == IF k = 0 THEN 0 ELSE B[k - 1] + bits[p + k - 1] * 2^(k - 1)
                   IN B[8]
CharOf(b) == IF \E c \in DOMAIN Ascii : Ascii[c] = b
             THEN CHOOSE c \in DOMAIN Ascii : Ascii[c] = b ELSE "junk"

VARIABLES phase,       \* "start", "compress", "decompress", "done"
          str,         \* the caller's string (compress writes ' ' over gobbled whitespace)
          input,       \* ghost: the string as given
          i,           \* the scan index of the running pass (1-based)
          string_mode,
          gobbling,
          header,      \* compressed[0..3]
          body,        \* the compressed bits after the header: 0..n-1 -> {0, 1}
          bit_pos,     \* the next body bit to write
          compressed,  \* "none" until compress returns, then "ok" or "null"
          last_string_char,
          dest,        \* the characters compression_decompress wrote
          decompressed, \* "none", then "ok" or "fail"
          overrun      \* ghost: a bit was written or read past the buffer

vars == <<phase, str, input, i, string_mode, gobbling, header, body, bit_pos,
          compressed, last_string_char, dest, decompressed, overrun>>

Init ==
  /\ input \in Inputs
  /\ str = input
  /\ phase = "start"
  /\ i = 1 /\ string_mode = FALSE /\ gobbling = FALSE
  /\ header = <<0, 0, 0, 0>> /\ body = <<>> /\ bit_pos = 0
  /\ compressed = "none" /\ last_string_char = "NUL"
  /\ dest = <<>> /\ decompressed = "none" /\ overrun = FALSE

(* set_bit over a run of body bits starting at bit_pos.                    *)
Emit(bits) ==
  /\ body' = [k \in DOMAIN body |->
                IF k >= bit_pos /\ k < bit_pos + Len(bits) THEN bits[k - bit_pos + 1] ELSE body[k]]
  /\ bit_pos' = bit_pos + Len(bits)
  /\ overrun' = (overrun \/ bit_pos + Len(bits) > Cardinality(DOMAIN body))

(***************************************************************************)
(* compression_compress up to its loop: size the buffer by                *)
(* compressed_length, return NULL for 0 bits, else zero it and write the  *)
(* bit count little-endian into the header.                                *)
(***************************************************************************)
CompressStart ==
  /\ phase = "start"
  /\ \E c_size_bits_i \in {compressed_length(str)} :
     \E c_size_bits \in {IF c_size_bits_i >= 0 THEN c_size_bits_i ELSE 0} :
     \E c_size_bytes \in {4 + c_size_bits \div 8 + (IF c_size_bits % 8 > 0 THEN 1 ELSE 0)} :
        IF c_size_bits = 0
        THEN /\ compressed' = "null"
             /\ phase' = "done"
             /\ UNCHANGED <<header, body>>
        ELSE \/ /\ compressed' = "nomem"      \* malloc returned NULL
                /\ phase' = "done"
                /\ UNCHANGED <<header, body>>
             \/ /\ header' = [k \in 1..4 |-> (c_size_bits \div 256^(k - 1)) % 256]
                /\ body' = [k \in 0..(8 * c_size_bytes - 33) |-> 0]
                /\ phase' = "compress"
                /\ UNCHANGED compressed
  /\ UNCHANGED <<str, input, i, string_mode, gobbling, bit_pos, last_string_char,
                 dest, decompressed, overrun>>

(* The loop of compression_compress, one iteration per action.             *)

(* Mutant: the comment gobbler stops on the ';' itself (the loop keeps    *)
(* "continue"-ing without moving).                                         *)
CCommentNoAdvance ==
  /\ phase = "compress" /\ i <= Len(str) /\ ~string_mode /\ str[i] = ";"
  /\ UNCHANGED vars

(* Mutant: the comment gobbler also steps over the newline it stops at.  *)
CCommentPastNewline ==
  /\ phase = "compress" /\ i <= Len(str) /\ ~string_mode /\ str[i] = ";"
  /\ i' = CommentEnd(str, i) + 1
  /\ UNCHANGED <<phase, str, input, string_mode, gobbling, header, body, bit_pos,
                 compressed, last_string_char, dest, decompressed, overrun>>

(* Mutant: a token after whitespace is matched where the scan stands, not *)
(* one back on the (rewritten) space.                                      *)
CTokenNoBackup ==
  /\ phase = "compress" /\ i <= Len(str) /\ ~string_mode
  /\ str[i] # ";" /\ str[i] \notin Gobbled
  /\ \E ix \in {MatchLongestKey(str, i)} :
        /\ gobbling' = FALSE
        /\ string_mode' = (str[i] = "\"")
        /\ IF ix = -1
           THEN /\ compressed' = "null"
                /\ phase' = "done"
                /\ UNCHANGED <<i, body, bit_pos, overrun>>
           ELSE /\ Emit(Code(ix))
                /\ i' = i + Len(Key(ix))
                /\ UNCHANGED <<phase, compressed>>
        /\ UNCHANGED <<str, input, header, last_string_char, dest, decompressed>>
CLoop == phase = "compress" /\ i <= Len(str)

CStringChar ==
  /\ CLoop /\ string_mode
  /\ Emit(CharBits(str[i]))
  /\ i' = i + 1
  /\ string_mode' = ~ClosesString(str, i)
  /\ UNCHANGED <<phase, str, input, gobbling, header, compressed, last_string_char,
                 dest, decompressed>>

CComment ==
  /\ CLoop /\ ~string_mode /\ str[i] = ";"
  /\ i' = CommentEnd(str, i)
  /\ UNCHANGED <<phase, str, input, string_mode, gobbling, header, body, bit_pos,
                 compressed, last_string_char, dest, decompressed, overrun>>

CWhitespace ==
  /\ CLoop /\ ~string_mode /\ str[i] \in Gobbled
  /\ gobbling' = TRUE
  /\ str' = [str EXCEPT ![i] = " "]
  /\ i' = i + 1
  /\ UNCHANGED <<phase, input, string_mode, header, body, bit_pos, compressed,
                 last_string_char, dest, decompressed, overrun>>

(* A token: step back onto the gobbled space if any, then emit the code   *)
(* of the longest key there; no key frees the buffer and returns NULL.    *)
CToken ==
  /\ CLoop /\ ~string_mode /\ str[i] # ";" /\ str[i] \notin Gobbled
  /\ \E j \in {IF gobbling THEN i - 1 ELSE i} :
     \E ix \in {MatchLongestKey(str, j)} :
        /\ gobbling' = FALSE
        /\ string_mode' = (str[j] = "\"")
        /\ IF ix = -1
           THEN /\ compressed' = "null"
                /\ phase' = "done"
                /\ UNCHANGED <<i, body, bit_pos, overrun>>
           ELSE /\ Emit(Code(ix))
                /\ i' = j + Len(Key(ix))
                /\ UNCHANGED <<phase, compressed>>
        /\ UNCHANGED <<str, input, header, last_string_char, dest, decompressed>>

(* The loop ends: compress returns the buffer; compression_decompress     *)
(* (compression_init_state) starts reading it at bit 32.                  *)
CDone ==
  /\ phase = "compress" /\ i > Len(str)
  /\ compressed' = "ok"
  /\ phase' = "decompress"
  /\ bit_pos' = 0
  /\ string_mode' = FALSE
  /\ last_string_char' = "NUL"
  /\ UNCHANGED <<str, input, i, gobbling, header, body, dest, decompressed, overrun>>

(***************************************************************************)
(* compression_decompress: repeated compression_decompress_incremental    *)
(* calls, each copying its characters to dest, until 0 (all header bits   *)
(* read) or -1 (no code matches).  compressed_bits is the header read by  *)
(* memcpy on a little-endian host.                                         *)
(***************************************************************************)
compressed_bits == header[1] + 256 * header[2] + 65536 * header[3] + 16777216 * header[4]

DLoop == phase = "decompress" /\ bit_pos < compressed_bits

(* read_character: 8 bits, least significant first; the call does not     *)
(* compare them with compressed_bits.                                      *)
DStringChar ==
  /\ DLoop /\ string_mode
  /\ LET inb == bit_pos + 8 <= Cardinality(DOMAIN body)
         c   == IF inb THEN CharOf(ByteOf(body, bit_pos)) ELSE "junk"
     IN /\ string_mode' = ~(c = "\"" /\ last_string_char # "\\")
        /\ last_string_char' = c
        /\ dest' = Append(dest, c)
        /\ bit_pos' = bit_pos + 8
        /\ overrun' = (overrun \/ ~inb)
        /\ UNCHANGED <<phase, str, input, i, gobbling, header, body, compressed, decompressed>>

(* A code: emit_key copies its key; the key "\"" enters string mode.       *)
DCode ==
  /\ DLoop /\ ~string_mode
  /\ \E ix \in {MatchLongestCode(body, bit_pos, compressed_bits)} :
        /\ IF ix = -1
           THEN /\ decompressed' = "fail"
                /\ phase' = "done"
                /\ UNCHANGED <<string_mode, last_string_char, dest, bit_pos>>
           ELSE /\ string_mode' = (Key(ix) = <<"\"">>)
                /\ last_string_char' = IF Key(ix) = <<"\"">> THEN "NUL" ELSE last_string_char
                /\ dest' = dest \o Key(ix)
                /\ bit_pos' = bit_pos + Len(Code(ix))
                /\ UNCHANGED <<phase, decompressed>>
        /\ UNCHANGED <<str, input, i, gobbling, header, body, compressed, overrun>>

(* All header bits read: the incremental step returns 0 and the loop of  *)
(* compression_decompress, which copied each step's characters to dest, *)
(* returns true (a -1 from DCode returned false).                          *)
DDone ==
  /\ phase = "decompress" /\ bit_pos >= compressed_bits
  /\ decompressed' = "ok"
  /\ phase' = "done"
  /\ UNCHANGED <<str, input, i, string_mode, gobbling, header, body, bit_pos,
                 compressed, last_string_char, dest, overrun>>

(* One iteration of either loop, or the return after it.                  *)
Step ==
  \/ CStringChar \/ CComment \/ CWhitespace \/ CToken \/ CDone
  \/ DStringChar \/ DCode \/ DDone

Next == CompressStart \/ Step

(***************************************************************************)
(* Both functions are sequential loops without blocking calls: a step     *)
(* that is enabled is taken.  This is WF_vars(Next): weak fairness of     *)
(* Step, and of CompressStart written out as <>[]~ENABLED \/ []<><<A>>_v   *)
(* with its ENABLED replaced by phase = "start" (every branch of it       *)
(* changes phase), which spares the model checker from evaluating         *)
(* compressed_length inside ENABLED.                                       *)
(***************************************************************************)
Spec == /\ Init /\ [][Next]_vars
        /\ WF_vars(Step)
        /\ (<>[](phase # "start") \/ []<><<CompressStart>>_vars)

-----------------------------------------------------------------------------
(***************************************************************************)
(* The reference: what a reader of the compressed program must get back.  *)
(* Outside strings a comment runs to its newline and is dropped, a run of *)
(* whitespace before a token is one space, and trailing whitespace goes;  *)
(* a string runs to a quote not preceded by a backslash and is kept as is.*)
(***************************************************************************)
RECURSIVE NormalizeFrom(_, _, _, _)
NormalizeFrom(s, k, in_string, pending_space) ==
  IF k > Len(s) THEN <<>>
  ELSE IF in_string
  THEN <<s[k]>> \o NormalizeFrom(s, k + 1, ~ClosesString(s, k), FALSE)
  ELSE IF s[k] = ";" THEN NormalizeFrom(s, CommentEnd(s, k), FALSE, pending_space)
  ELSE IF s[k] \in Gobbled THEN NormalizeFrom(s, k + 1, FALSE, TRUE)
  ELSE (IF pending_space THEN <<" ">> ELSE <<>>)
         \o <<s[k]>> \o NormalizeFrom(s, k + 1, s[k] = "\"", FALSE)

Normalize(s) == NormalizeFrom(s, 1, FALSE, FALSE)

(* A character outside strings and comments that is not whitespace and   *)
(* starts no key: match_longest_key finds nothing and compress fails.      *)
RECURSIVE Unkeyed(_, _, _)
Unkeyed(s, k, in_string) ==
  IF k > Len(s) THEN FALSE
  ELSE IF in_string THEN Unkeyed(s, k + 1, ~ClosesString(s, k))
  ELSE IF s[k] = ";" THEN Unkeyed(s, CommentEnd(s, k), FALSE)
  ELSE IF s[k] \in Gobbled THEN Unkeyed(s, k + 1, FALSE)
  ELSE MatchLongestKey(s, k) = -1 \/ Unkeyed(s, k + 1, s[k] = "\"")

Encodable(s) == Normalize(s) # <<>> /\ ~Unkeyed(s, 1, FALSE)

-----------------------------------------------------------------------------
Chars == DOMAIN Ascii \cup {"junk", "NUL"}

(* Every variable holds a value of its kind.                               *)
TypeOK ==
  /\ phase \in {"start", "compress", "decompress", "done"}
  /\ input \in Seq(DOMAIN Ascii) /\ str \in Seq(DOMAIN Ascii) /\ Len(str) = Len(input)
  /\ i \in 1..(Len(input) + 1)
  /\ string_mode \in BOOLEAN /\ gobbling \in BOOLEAN
  /\ header \in [1..4 -> 0..255]
  /\ \A k \in DOMAIN body : body[k] \in {0, 1}
  /\ bit_pos \in Nat
  /\ compressed \in {"none", "ok", "null", "nomem"}
  /\ decompressed \in {"none", "ok", "fail"}
  /\ last_string_char \in Chars
  /\ dest \in Seq(Chars)
  /\ overrun \in BOOLEAN

(* compression_compress returns a buffer exactly when the program can be   *)
(* encoded (and malloc succeeds), and compression_decompress then gives   *)
(* back the program with comments dropped and whitespace runs collapsed:  *)
(* the two passes of compress, the whitespace step-back and the escape    *)
(* rule shared by encoder and decoder must all agree.                      *)
RoundTrip ==
  phase = "done" =>
    /\ compressed = "ok" => decompressed = "ok" /\ dest = Normalize(input)
    /\ compressed # "nomem" => (compressed = "null" <=> ~Encodable(input))

(* No bit is written (set_bit in emit_code / emit_string_char_code) or    *)
(* read (read_character) outside the c_size_bytes that compress malloc'd: *)
(* compressed_length must count every bit the second pass emits.          *)
NoBufferOverflow == ~overrun

(* Both loops end: compress and decompress return.                         *)
Terminates == <>(phase = "done")
====
