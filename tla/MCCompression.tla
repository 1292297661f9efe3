--------------------------- MODULE MCCompression ---------------------------
EXTENDS Compression
LOCAL INSTANCE SequencesExt

(* A small alphabet with a multi-character key ("if"), the comment,       *)
(* whitespace, string and escape characters, and a vertical tab: a space  *)
(* to isspace in compressed_length, but no gobbled character and no key   *)
(* in the second pass.                                                     *)
MCAlphabet == {"(", "i", "f", " ", "\n", ";", "\"", "\\", "VT"}
MCMaxLen == 4
MCInputs == SeqOf(MCAlphabet, MCMaxLen)
MCAscii == [c \in MCAlphabet |->
             CASE c = "(" -> 40 [] c = "i" -> 105 [] c = "f" -> 102 [] c = " " -> 32
               [] c = "\n" -> 10 [] c = ";" -> 59 [] c = "\"" -> 34 [] c = "\\" -> 92
               [] c = "VT" -> 11]
====
