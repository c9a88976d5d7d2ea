-------------------------------- MODULE VBase --------------------------------
(***************************************************************************)
(* The variant database: makeVBase writes one record for each reading of   *)
(* the apparatus with the witnesses that have it into the .vbs file of the *)
(* book, searchVBase reads that file and returns the readings that meet    *)
(* all of up to eight conditions (ana_commands.c and ana_utils.c).         *)
(*                                                                         *)
(* An apparatus is the list of its <app> elements: each has a type and     *)
(* readings, a reading its element and the sigils of its witnesses.        *)
(***************************************************************************)
EXTENDS Integers, Sequences, FiniteSets, SequencesExt

CONSTANTS
  MAXMSS,       \* witnesses that a database can have
  TypeParts     \* pairs of a type and what strstr finds in it

\* What a loop through s keeps, in its order: the members that are in S.
Kept(s, S) ==
  LET kept[i \in 0 .. Len(s)] ==
        IF i = 0 THEN <<>>
        ELSE IF s[i] \in S THEN Append(kept[i - 1], s[i])
        ELSE kept[i - 1]
  IN kept[Len(s)]

\* A list of witnesses, and <app> elements with readings and their witnesses.
IsApparatus(b) ==
  /\ b.witlist \in Seq(STRING)
  /\ b.apps \in Seq([type : STRING, rdgs : Seq([el : Nat, refs : SUBSET STRING])])

NoType == ""

\* Witnesses are numbered from 0, in the order of the witness list.
Mss(base) == 0 .. Len(base.sigil_key) - 1
Number(base, sigil) == Min({m \in Mss(base) : base.sigil_key[m + 1] = sigil})

(***************************************************************************)
(* makeVBase                                                               *)
(***************************************************************************)
\* The witness list: refused when it goes on after MAXMSS were taken.
ReadWitList(wits, exclude) ==
  LET Taken(k) == Kept(SubSeq(wits, 1, k), ToSet(wits) \ exclude)
  IN [ok |-> \A k \in 0 .. Len(wits) - 1 : Len(Taken(k)) # MAXMSS,
      sigils |-> Taken(Len(wits))]

\* A witness that is not in the list sets no bit; the first of a name does.
Vlist(sigils, refs) ==
  {d \in 0 .. Len(sigils) - 1 :
     /\ \E r \in refs : r = sigils[d + 1]
     /\ \A e \in 0 .. d - 1 : sigils[e + 1] # sigils[d + 1]}

\* The type is that of the <app>; that of the <rdg> is not looked at.
Record(sigils, app, rdg) ==
  [rdg_id |-> rdg.el, type |-> app.type, vlist |-> Vlist(sigils, rdg.refs)]

Records(sigils, apps) ==
  FlattenSeq([i \in 1 .. Len(apps) |->
    [j \in 1 .. Len(apps[i].rdgs) |-> Record(sigils, apps[i], apps[i].rdgs[j])]])

\* The bytes of an int the other way round.
upend(n) ==
  LET byte(i) == (n \div 256 ^ i) % 256
      top == IF byte(0) < 128 THEN byte(0) ELSE byte(0) - 256
  IN top * 256 ^ 3 + byte(1) * 256 ^ 2 + byte(2) * 256 + byte(3)

RecordSize == 4 + 7 + MAXMSS \div 8

\* The .vbs file of a book: how far it is written, what a reader, who upends
\* them on a little-endian machine, makes of the first two numbers of its
\* header, the witnesses and the records.  exclude is history.
NoFile == <<>>
EmptyFile == <<[state |-> "empty", n_rdgs |-> 0, record_size |-> 0,
                sigil_key |-> <<>>, rdgs |-> <<>>, exclude |-> {}]>>

\* The header is written first, with a number of readings of 0.
Begun(book, exclude) ==
  LET sigils == ReadWitList(book.witlist, exclude).sigils
  IN [state |-> "begun", n_rdgs |-> 0, record_size |-> RecordSize,
      sigil_key |-> sigils, rdgs |-> Records(sigils, book.apps), exclude |-> exclude]

\* A read that fails leaves it there, with the records that were written.
StoppedAfter(k, file) == [file EXCEPT !.rdgs = SubSeq(@, 1, k)]

\* In the end the number of readings is written over it: an int, as it is, in
\* as many bytes as a long has.  Where these are 8, what is behind the int on
\* the stack is written over the size of a record.
Finished(file, build) ==
  LET n == Len(file.rdgs)
  IN [file EXCEPT !.state = "made",
                  !.n_rdgs = IF build.big_endian THEN n ELSE upend(n),
                  !.record_size = IF build.long_bytes = 8 THEN build.behind ELSE @]

\* What makeVBase may leave, from the first <app> to the last that was asked
\* for: the file as it was when it is not there (it is opened, not made) or
\* when there are too many witnesses, which is seen before it is opened.
make_ana_vbase(book, exclude, vbs, build) ==
  IF vbs = NoFile \/ ~ReadWitList(book.witlist, exclude).ok THEN {vbs}
  ELSE LET file == Begun(book, exclude)
       IN {<<Finished(file, build)>>}
            \cup {<<StoppedAfter(k, file)>> : k \in 0 .. Len(file.rdgs)}

(***************************************************************************)
(* What searchVBase reads of the file, once for a process book: no base    *)
(* where there is less in the file than its header says.  A base is        *)
(* whole when it is of a finished file that counts its readings right; it  *)
(* is sound when what the search looks at are records, and not other       *)
(* memory.                                                                 *)
(***************************************************************************)
NoBase == <<>>

read_vbase(vbs) ==
  IF vbs = NoFile THEN NoBase
  ELSE LET file == vbs[1]
           n == file.n_rdgs
           written == Len(file.rdgs)
       IN IF file.state = "empty" \/ n * file.record_size \notin 0 .. RecordSize * written
          THEN NoBase
          ELSE <<[sigil_key |-> file.sigil_key,
                  rdgs |-> IF n < written THEN SubSeq(file.rdgs, 1, n) ELSE file.rdgs,
                  sound |-> n = 0 \/ file.record_size = RecordSize,
                  whole |-> file.state = "made" /\ n = written,
                  exclude |-> file.exclude]>>

\* Its pool is destroyed, and the book goes on pointing there.
Freed(base) == <<[base[1] EXCEPT !.sound = FALSE]>>

AsMade(base) == base # NoBase /\ base[1].sound /\ base[1].whole

(***************************************************************************)
(* read_query_cond: a condition                                            *)
(*   [not] in [number of] sigil ... [with type]                            *)
(* is neg, op, n, sigils, type and whether the type has a "!" before it;   *)
(* op is "" when there is no number, and "2" for a number without a sign.  *)
(***************************************************************************)
Ops == {"", "2", "=", "==", "<", "<<", ">", ">>"}

\* \all takes all there are, and what follows it is not read.
AllAt(c) == {i \in 1 .. Len(c.sigils) : c.sigils[i] = "all"}
cond_mss(base, c) ==
  IF AllAt(c) # {} THEN [i \in 1 .. Cardinality(Mss(base)) |-> i - 1]
  ELSE LET known == Kept(c.sigils, ToSet(base.sigil_key))
       IN [i \in 1 .. Len(known) |-> Number(base, known[i])]
var_type(c) == IF AllAt(c) # {} THEN NoType ELSE c.type

num_cond(c) ==
  CASE c.op \in {"<", "<<"} -> IF c.neg THEN "MoreNom" ELSE "LessNom"
    [] c.op \in {">", ">>"} -> IF c.neg THEN "LessNom" ELSE "MoreNom"
    [] c.op \in {"=", "=="} -> IF c.neg THEN "NotNom" ELSE "OnlyNom"
    [] c.op = "2" -> IF ~c.neg THEN "OnlyNom"
                     ELSE IF c.n # 0 THEN "NotNom" ELSE "NotAny"
    [] c.op = "" -> IF c.neg THEN "NotAny" ELSE "OnlyNom"

\* Variant: the number of a negated condition is left as it is.
seek_mss_same(base, c) ==
  IF c.op = "" THEN IF c.neg THEN 0 ELSE Len(cond_mss(base, c)) ELSE c.n

seek_mss(base, c) ==
  CASE c.op = "" -> IF c.neg THEN 0 ELSE Len(cond_mss(base, c))
    [] c.neg /\ c.op \in {"<", "<<"} -> c.n - 1
    [] c.neg /\ c.op \in {">", ">>"} -> c.n + 1
    [] OTHER -> c.n

others(c) == c.op \notin {"<<", ">>", "=="}

\* More witnesses asked for than were named.
TooMany(base, c) ==
  c.op # "" /\ c.n > Len(cond_mss(base, c)) /\ num_cond(c) # "LessNom"

read_query_cond(base, c) ==
  [ok |-> ~TooMany(base, c), mss |-> cond_mss(base, c), num |-> num_cond(c),
   seek |-> seek_mss(base, c), type |-> var_type(c), bang |-> c.bang,
   others |-> others(c)]

(***************************************************************************)
(* tst_srch_cond                                                           *)
(***************************************************************************)
\* A witness that is named twice counts twice.
these_mss(base, rdg, cond) ==
  Cardinality({i \in 1 .. Len(cond.mss) :
                 i <= Cardinality(Mss(base)) /\ cond.mss[i] \in rdg.vlist})

NumberHolds(k, cond) ==
  CASE cond.num = "OnlyNom" -> k = cond.seek
    [] cond.num = "LessNom" -> k < cond.seek
    [] cond.num = "MoreNom" -> k > cond.seek
    [] cond.num = "NotNom" -> k # cond.seek
    [] cond.num = "NotAny" -> k = 0

HasType(rdg, cond) == <<rdg.type, cond.type>> \in TypeParts
OtherType(rdg, cond) == cond.type # NoType /\ ~cond.bang /\ ~HasType(rdg, cond)
BarredType(rdg, cond) == cond.type # NoType /\ cond.bang /\ HasType(rdg, cond)

\* A reading of a type without that after "with" is accepted whatever
\* its witnesses; one of a type after "with !" never is.
tst_srch_cond(base, rdg, cond) ==
  \/ OtherType(rdg, cond)
  \/ /\ ~BarredType(rdg, cond)
     /\ NumberHolds(these_mss(base, rdg, cond), cond)
     /\ \/ cond.others
        \/ Cardinality(rdg.vlist) = these_mss(base, rdg, cond)

(***************************************************************************)
(* searchVBase: of the readings between the elements start and end that    *)
(* meet the conditions, num from the first_ret-th on.                      *)
(***************************************************************************)
Meets(base, rdg, conds) ==
  \A i \in 1 .. Len(conds) : tst_srch_cond(base, rdg, read_query_cond(base, conds[i]))

Hits(base, start, end, conds) ==
  Kept(base.rdgs, {r \in ToSet(base.rdgs) :
                     r.rdg_id \in start .. end /\ Meets(base, r, conds)})

\* Which of n hits are returned.
Page(n, first_ret, num) ==
  Kept([i \in 1 .. n |-> i], first_ret .. Max({first_ret, 1}) + num - 1)

NoAnswer == [ok |-> FALSE, found |-> 0, ids |-> <<>>]

Searched(base, start, end, first_ret, num, conds) ==
  IF \E i \in 1 .. Len(conds) : ~read_query_cond(base, conds[i]).ok
  THEN NoAnswer
  ELSE LET hits == Hits(base, start, end, conds)
           page == Page(Len(hits), first_ret, num)
       IN [ok |-> TRUE, found |-> Len(hits),
           ids |-> [i \in 1 .. Len(page) |-> hits[page[i]].rdg_id]]

\* Memory that holds no records answers anything: nothing, that there is
\* nothing, or an element that is no reading.
Anything == {NoAnswer, [ok |-> TRUE, found |-> 0, ids |-> <<>>],
             [ok |-> TRUE, found |-> 1, ids |-> <<-1>>]}

\* What it may answer from a base.
search_ana_vbase(base, start, end, first_ret, num, conds) ==
  IF base = NoBase THEN {NoAnswer}
  ELSE IF ~base[1].sound THEN Anything
  ELSE {Searched(base[1], start, end, first_ret, num, conds)}

\* The base that the book has then.  One that was read in this call is in the
\* pool of the call, which a condition that is refused destroys.
BaseAfter(had, base, result) ==
  IF had = NoBase /\ base # NoBase /\ ~result.ok THEN Freed(base) ELSE base
=============================================================================
