------------------------------- MODULE Movies -------------------------------
(***************************************************************************)
(* Lab 87: the programs that index the films of the mux television.        *)
(* build.c reads the text of the database and writes, for every category,  *)
(* the titles and an index: where the film's text is, and where its movie  *)
(* and trailer are named.  warp.c reads the titles and writes, for every   *)
(* letter, the number of its first title.  movie.b takes entry n of the    *)
(* index for title n, and jumps to warp of a letter.                       *)
(*                                                                         *)
(* The database is a sequence of lines, and a position in it the number of *)
(* a line.  Editors append records; not all are well formed.               *)
(***************************************************************************)
EXTENDS Integers, Sequences, SequencesExt

CONSTANTS Category,              \* category[] of build.c
          Letters,               \* how many letters there are
          MaxRecords             \* bound: records of the database

ASSUME MoviesAssumption == Letters \in Nat \ {0} /\ MaxRecords \in Nat

VARIABLES database, records,     \* the lines; history: how many records
          building, built,       \* build: where it is, what it has come to
          titles, index,         \* what build writes for every category
          warp, warpz, warped    \* what warp writes for it, its z, titles read

indexVars == <<titles, index>>
buildVars == <<building, built, indexVars>>
warpVars == <<warp, warpz, warped>>
moviesVars == <<database, records, buildVars, warpVars>>

Letter1 == 1 .. Letters
NoWarp == [l \in Letter1 |-> 0]

MoviesInit ==
    /\ database = <<>> /\ records = 0
    /\ building = 0 /\ built = "no"
    /\ titles = [c \in Category |-> <<>>]
    /\ index = [c \in Category |-> <<>>]
    /\ warp = [c \in Category |-> NoWarp]
    /\ warpz = [c \in Category |-> 1]
    /\ warped = [c \in Category |-> 0]

Line(on, is) == [on |-> on, is |-> is]
Blank == Line("blank", <<>>)

\* A film: its title, perhaps after an article, and the lines that follow.
RecordOf(title, cats, body) ==
    <<Line("Title:", title)>>
    \o (IF "Category:" \in body THEN <<Line("Category:", cats)>> ELSE <<>>)
    \o (IF "Synopsis:" \in body THEN <<Line("Synopsis:", <<>>)>> ELSE <<>>)
    \o (IF "Movie:" \in body THEN <<Line("Movie:", <<>>), Line("Trailer:", <<>>)>> ELSE <<>>)
    \o (IF "blank" \in body THEN <<Blank>> ELSE <<>>)
Bodies == {{"Category:", "Synopsis:", "blank"}, {"Category:", "Synopsis:", "Movie:", "blank"},
           {"Category:", "Movie:", "blank"}, {"Synopsis:", "blank"}, {"Category:", "Synopsis:"}}

AddRecord(title, cats, body) ==
    /\ building = 0 /\ built = "no" /\ records < MaxRecords
    /\ database' = database \o RecordOf(title, cats, body)
    /\ records' = records + 1
    /\ UNCHANGED <<buildVars, warpVars>>

-----------------------------------------------------------------------------
(***************************************************************************)
(* build                                                                   *)
(***************************************************************************)
Later(on, i) == {j \in i + 1 .. Len(database) : database[j].on = on}
First(s) == CHOOSE i \in s : \A j \in s : i <= j
Final(s) == IF s = {} THEN 0 ELSE CHOOSE i \in s : \A j \in s : j <= i

\* mutant: the lines after the synopsis are read to the end, not to a blank one
Additions_All(synop) == synop + 1 .. Len(database)
\* The lines between the synopsis and the next blank one.
Additions(synop) ==
    {j \in synop + 1 .. Len(database) : \A k \in synop + 1 .. j : database[k] # Blank}
Added(on, synop) == Final({j \in Additions(synop) : database[j].on = on})

\* One film.  Each of its lines is the next of that kind, of whichever record.
\* Where no blank line follows, build reads on past the end of the text.
BuildFilm ==
    /\ built = "no"
    /\ LET start == First(Later("Title:", building))
           cat == First(Later("Category:", start))
           synop == First(Later("Synopsis:", start))
           in == {c \in Category : c \in database[cat].is}
           entry == [info |-> start + 1, end |-> synop,
                     mpeg |-> Added("Movie:", synop), trailer |-> Added("Trailer:", synop)]
       IN  IF Later("Title:", building) = {} \/ Later("Category:", start) = {}
              \/ Later("Synopsis:", start) = {}
           THEN built' = "done" /\ UNCHANGED <<building, indexVars>>
           ELSE IF Later("blank", synop) = {} THEN built' = "astray" /\ UNCHANGED <<building, indexVars>>
           ELSE /\ building' = start /\ UNCHANGED built
                /\ titles' = [c \in Category |->
                      IF c \in in THEN Append(titles[c], database[start].is) ELSE titles[c]]
                /\ index' = [c \in Category |->
                      IF c \in in THEN Append(index[c], entry) ELSE index[c]]
    /\ UNCHANGED <<database, records, warpVars>>

(***************************************************************************)
(* warp: an article does not count.  The letter from which a title is the  *)
(* first of its letter moves on by one only.  Letters are those warp has a *)
(* place for: it checks nothing, and writes beyond them for any other.     *)
(***************************************************************************)
\* mutant: the article counts
Named_Article(t) == Head(t)
Named(t) == Last(t)

WarpTitle(c) ==
    /\ built = "done" /\ warped[c] < Len(titles[c])
    /\ LET l == Named(titles[c][warped[c] + 1])
       IN  IF l >= warpz[c] + 1
           THEN /\ warp' = [warp EXCEPT ![c] = [k \in Letter1 |->
                               IF k >= l THEN warped[c] ELSE @[k]]]
                /\ warpz' = [warpz EXCEPT ![c] = @ + 1]
           ELSE UNCHANGED <<warp, warpz>>
    /\ warped' = [warped EXCEPT ![c] = @ + 1]
    /\ UNCHANGED <<database, records, buildVars>>

MoviesNext ==
    \/ \E l \in Letter1, cats \in SUBSET Category, body \in Bodies :
          AddRecord(<<l>>, cats, body) \/ AddRecord(<<1, l>>, cats, body)
    \/ BuildFilm
    \/ \E c \in Category : WarpTitle(c)

MoviesSpec == MoviesInit /\ [][MoviesNext]_moviesVars

-----------------------------------------------------------------------------
\* The record of a title is whole if each line build looks for comes before the
\* next title.
WholeRecord(i) ==
    /\ i \in DOMAIN database /\ database[i].on = "Title:"
    /\ \A on \in {"Category:", "Synopsis:", "blank"} :
          \E j \in Later(on, i) : Later("Title:", i) \cap (i .. j) = {}

\* build goes astray only where a record is not whole.  Title n and entry n are
\* of one film; if its record is whole, its text, movie and trailer are found in
\* that record, whatever the others are like.  No film whose record is whole is
\* left out of a category.
IndexFollowsTitles ==
    /\ built = "astray" =>
          \E i \in DOMAIN database : database[i].on = "Title:" /\ ~WholeRecord(i)
    /\ \A c \in Category :
          /\ Len(titles[c]) = Len(index[c])
          /\ \A n \in DOMAIN index[c] :
               LET e == index[c][n]
                   next == Later("Title:", e.info - 1)
                   inside == {i \in e.info .. Len(database) : \A t \in next : i < t}
               IN  /\ database[e.info - 1] = Line("Title:", titles[c][n])
                   /\ WholeRecord(e.info - 1) =>
                        /\ {e.end, e.mpeg, e.trailer} \subseteq inside \cup {0}
                        /\ \A i \in inside : database[i].on = "Movie:" => e.mpeg = i
    /\ built = "done" =>
          \A i \in DOMAIN database : WholeRecord(i) =>
             \A c \in Category : c \in database[First(Later("Category:", i))].is =>
                \E n \in DOMAIN index[c] : index[c][n].info = i + 1

LetterOf(c, n) == Last(titles[c][n])

\* The titles read so far come in the order of the alphabet.
Ordered(c) == \A n \in 2 .. warped[c] : LetterOf(c, n - 1) <= LetterOf(c, n)

\* Letters before l that have no title.  warp's z begins at the first letter.
Skipped(c, l) == {k \in 2 .. l - 1 : \A n \in 1 .. warped[c] : LetterOf(c, n) # k}

\* Then warp of a letter that has titles is one of them, and the first, unless
\* letters before it have none: it is never further from the first than letters
\* were skipped.
WarpFinds ==
    \A c \in Category : Ordered(c) =>
        \A n \in 1 .. warped[c] :
            LET l == LetterOf(c, n)
                m == warp[c][l] + 1
            IN  /\ m \in 1 .. warped[c] /\ LetterOf(c, m) = l
                /\ m - n <= Cardinality(Skipped(c, l))

FilmsFound == IndexFollowsTitles /\ WarpFinds

=============================================================================
