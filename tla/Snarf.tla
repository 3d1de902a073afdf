------------------------------- MODULE Snarf --------------------------------
(***************************************************************************)
(* Labs 44 and 55: /dev/snarf in devcons.c, with clipread and clipwrite of *)
(* win.c: the clipboard of the host as a file.  A reader gets a copy of    *)
(* the clipboard, taken when it reads at offset 0; a writer fills a buffer *)
(* of its own, which goes to the clipboard when it closes the file.  Other *)
(* programs of the host change the clipboard, or keep it open: then it     *)
(* reads as empty, and what is written is dropped.                         *)
(*                                                                         *)
(* Files are read and written from the beginning, a character at a time.   *)
(* Opening, using and closing the clipboard is one step: it is open to one *)
(* program only.                                                           *)
(***************************************************************************)
EXTENDS Integers, Sequences, FiniteSets, SequencesExt

CONSTANTS SnarfChan,             \* channels of /dev/snarf
          Letter,                \* characters
          SnarfSize,             \* size of a writer's buffer
          MaxTexts               \* bound: texts the clipboard is given

ASSUME SnarfAssumption == SnarfSize \in Nat \ {0} /\ MaxTexts \in Nat

VARIABLES clip,                  \* the clipboard
          busy,                  \* does another program keep it open?
          snarf,                 \* channel: mode, aux and offset
          texts,                 \* history: texts the clipboard was given
          text,                  \* history: what a channel has read or written
          snarfed                    \* history: what was read last, to its end

snarfVars == <<clip, busy, snarf, texts, text, snarfed>>

\* A text has no zero in it: the host's text, and what is written, end there.
Nul == "nul"
ASSUME SnarfLetters == Nul \notin Letter

Text == BoundedSeq(Letter, SnarfSize - 1)
UpToNul(b) == SubSeq(b, 1, SelectInSeq(Append(b, Nul), LAMBDA x : x = Nul) - 1)
Buffered == {"write", "drop"}     \* a file whose text goes to the clipboard, or not
Mode(mode, aux) == [mode |-> mode, aux |-> aux, offset |-> 0]

SnarfInit ==
    /\ clip = <<>> /\ busy = FALSE /\ texts = {<<>>} /\ snarfed = <<>>
    /\ snarf = [c \in SnarfChan |-> Mode("closed", <<>>)]
    /\ text = [c \in SnarfChan |-> <<>>]

\* Another program changes the clipboard, or keeps it open for a while.
HostClips ==
    /\ \/ /\ ~busy /\ Cardinality(texts) < MaxTexts
          /\ clip' \in Text
          /\ texts' = texts \cup {clip'} /\ UNCHANGED busy
       \/ busy' = ~busy /\ UNCHANGED <<clip, texts>>
    /\ UNCHANGED <<snarf, text, snarfed>>

\* consopen: a file to be read begins empty, one to be written with a buffer
\* of zeroes.  A file to be read and written is refused, but not if it is to be
\* truncated too: it gets a buffer, and what is written to it is dropped when it
\* is closed.  (Here it is written, or read like the others, never both.)
SnarfOpen(c) ==
    /\ snarf[c].mode = "closed"
    /\ \/ snarf' = [snarf EXCEPT ![c] = Mode("read", <<>>)]
       \/ \E mode \in Buffered :
             snarf' = [snarf EXCEPT ![c] = Mode(mode, [i \in 1 .. SnarfSize |-> Nul])]
    /\ text' = [text EXCEPT ![c] = <<>>]
    /\ UNCHANGED <<clip, busy, texts, snarfed>>

\* Of the two forms the clipboard has, the Unicode text is preferred: the same
\* text, converted.
Clipread == IF busy THEN <<>> ELSE clip

\* mutant: every read looks at the clipboard again
Copy_Again(c) == Clipread
Copy(c) == IF snarf[c].offset = 0 THEN Clipread ELSE snarf[c].aux

\* consread: at the end of the text it returns nothing.
SnarfRead(c) ==
    /\ snarf[c].mode = "read"
    /\ LET o == snarf[c].offset
           more == o < Len(Copy(c))
           so_far == IF o = 0 THEN <<>> ELSE text[c]
       IN  /\ snarf' = [snarf EXCEPT ![c].aux = Copy(c), ![c].offset = IF more THEN o + 1 ELSE 0]
           /\ text' = [text EXCEPT ![c] = IF more THEN Append(so_far, Copy(c)[o + 1]) ELSE <<>>]
           /\ snarfed' = IF more THEN snarfed ELSE so_far
    /\ UNCHANGED <<clip, busy, texts>>

\* conswrite: a write that reaches the last byte of the buffer is refused.
SnarfWrite(c, x) ==
    /\ snarf[c].mode \in Buffered /\ snarf[c].offset + 1 < SnarfSize
    /\ snarf' = [snarf EXCEPT ![c].aux[snarf[c].offset + 1] = x, ![c].offset = @ + 1]
    /\ text' = [text EXCEPT ![c] = Append(@, x)]
    /\ UNCHANGED <<clip, busy, texts, snarfed>>

\* consclose and clipwrite.
SnarfClose(c) ==
    /\ snarf[c].mode # "closed"
    /\ \/ /\ snarf[c].mode = "write" /\ ~busy
          /\ clip' = UpToNul(snarf[c].aux)
          /\ texts' = texts \cup {text[c]}
       \/ /\ snarf[c].mode # "write" \/ busy
          /\ UNCHANGED <<clip, texts>>
    /\ snarf' = [snarf EXCEPT ![c] = Mode("closed", <<>>)]
    /\ text' = [text EXCEPT ![c] = <<>>]
    /\ UNCHANGED <<busy, snarfed>>

SnarfNext ==
    \/ HostClips
    \/ \E c \in SnarfChan : SnarfOpen(c) \/ SnarfRead(c) \/ SnarfClose(c)
                            \/ \E x \in Letter : SnarfWrite(c, x)

SnarfSpec == SnarfInit /\ [][SnarfNext]_snarfVars

-----------------------------------------------------------------------------
\* Whatever happens to the clipboard between the reads of a file, a text read
\* from the beginning to the end is one text the clipboard was given, and the
\* clipboard is never given less or more than was written to a file.
SnarfWhole == snarfed \in texts /\ clip \in texts

=============================================================================
