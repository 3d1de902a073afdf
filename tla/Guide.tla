-------------------------------- MODULE Guide -------------------------------
(***************************************************************************)
(* Lab 87: bdb.c writes the television guide: for every channel a file     *)
(* that has, for every quarter of an hour since the first day of the feed, *)
(* the place of the programme's record.  tvlist.b looks a quarter up.      *)
(*                                                                         *)
(* A day has Hours hours, and days[m] is the length of a month: the code   *)
(* has 24, and the lengths of the months.  The year stays the same.        *)
(***************************************************************************)
EXTENDS Integers, Sequences, SequencesExt

CONSTANTS Station,               \* channels of the feed
          Hours, Minute,         \* hours of a day, minutes at which things start
          MaxFeed                \* bound: lines of the feed

ASSUME GuideAssumption == Hours \in Nat \ {0} /\ Minute \subseteq 0 .. 59 /\ MaxFeed \in Nat

VARIABLES feed,                  \* the lines read so far
          base,                  \* the first day of the guide
          files, at              \* what a file holds, and where it is written

guideVars == <<feed, base, files, at>>

days == <<2, 1, 2>>
Date == [month : DOMAIN days, day : 1 .. 2]
Time == [hr : 0 .. Hours - 1, min : Minute]
Quarters == Hours * 4
Malformed == [day |-> 0]
NoBase == -1

GuideInit ==
    /\ feed = <<>> /\ base = NoBase
    /\ files = [s \in Station |-> <<>>]
    /\ at = [s \in Station |-> 0]

\* time2quart, of the time a programme starts and of its length: what is left of
\* a quarter is left out, and a short programme has none.
Time2quart(t) == t.hr * 4 + t.min \div 15

\* mutant: a day is a quarter
Date2quart_Days(d) == days[d.month] + d.day
\* date2quart adds the length of the month itself, not of those before it.
Date2quart(d) == (days[d.month] + d.day) * Quarters

\* The first whole line gives the day the guide starts on, and no programme.
BaseDay(d) ==
    /\ Len(feed) < MaxFeed /\ base = NoBase
    /\ feed' = Append(feed, [date |-> d, station |-> "none", start |-> 0, durat |-> 0])
    /\ base' = Date2quart(d)
    /\ UNCHANGED <<files, at>>

\* A line without all its fields is passed over.
BadLine ==
    /\ Len(feed) < MaxFeed
    /\ feed' = Append(feed, Malformed)
    /\ UNCHANGED <<base, files, at>>

\* What a file holds when n quarters from q on are written, and zeroes fill up.
Written(file, q, n, posn) ==
    LET end == IF n > 0 /\ q + n > Len(file) THEN q + n ELSE Len(file)
    IN  [i \in 1 .. end |-> IF i \in q + 1 .. q + n THEN posn
                            ELSE IF i \in DOMAIN file THEN file[i] ELSE 0]

\* A programme: a seek to before the start fails, and then what is written
\* goes where the last one ended.
Programme(d, s, time, length) ==
    LET start == Time2quart(time)
        durat == Time2quart(length)
        q == Date2quart(d) - base + start
        from == IF q < 0 THEN at[s] ELSE q
    IN  /\ Len(feed) < MaxFeed /\ base # NoBase
        /\ feed' = Append(feed, [date |-> d, station |-> s, start |-> start, durat |-> durat])
        /\ files' = [files EXCEPT ![s] = Written(@, from, durat, Len(feed'))]
        /\ at' = [at EXCEPT ![s] = from + durat]
        /\ UNCHANGED base

GuideNext ==
    \/ BadLine
    \/ \E d \in Date :
        \/ BaseDay(d)
        \/ \E s \in Station, time, length \in Time : Programme(d, s, time, length)

GuideSpec == GuideInit /\ [][GuideNext]_guideVars

-----------------------------------------------------------------------------
Whole == {i \in DOMAIN feed : feed[i] # Malformed}

\* While the programmes of a channel are of the month the feed begins in, and not
\* before its first day, every quarter of the channel leads to the last programme
\* of the feed that is on then, or to none, whatever the other channels have:
\* times and lengths are rounded down to quarters.  Two months of one length share
\* their quarters, and a shorter month comes before the one it follows.
GuideFinds ==
    LET first == feed[CHOOSE i \in Whole : \A j \in Whole : i <= j].date
        True(i) == (feed[i].date.day - first.day) * Quarters + feed[i].start
        Of(s) == {i \in Whole : feed[i].station = s}
        On(s, q) == {i \in Of(s) : q \in True(i) .. True(i) + feed[i].durat - 1}
    IN  \A s \in Station :
           \/ \E i \in Of(s) : \/ feed[i].date.month # first.month
                               \/ feed[i].date.day < first.day
           \/ /\ \A i \in DOMAIN files[s] :
                    files[s][i] = IF On(s, i - 1) = {} THEN 0
                                  ELSE CHOOSE j \in On(s, i - 1) : \A k \in On(s, i - 1) : k <= j
              /\ \A i \in Of(s) : feed[i].durat > 0 => True(i) + feed[i].durat <= Len(files[s])

=============================================================================
