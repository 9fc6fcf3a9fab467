------------------------- MODULE ContinuationProofs -------------------------
(***************************************************************************)
(* Exactly-once delivery of a scan's rows over either transport, for every *)
(* number of scans, every stream, every tick size and every number of      *)
(* losses and crashes.                                                     *)
(***************************************************************************)
EXTENDS Continuation, SequenceTheorems, TLAPS

\* The rows of p as a query receives them.
Sent(p) == SqlRows(GobRows(p))

----------------------------------------------------------------------------
\* gob, once applied, changes nothing more.
LEMMA GobRowTwice ==
    ASSUME NEW r
    PROVE  GobRow(GobRow(r)) = GobRow(r)
BY DEF GobRow, GobScore, GobCategories

LEMMA GobRowsFacts ==
    ASSUME NEW p, IsRows(p)
    PROVE  /\ IsRows(GobRows(p))
           /\ Len(p) \in Nat
           /\ Len(GobRows(p)) = Len(p)
           /\ GobRows(GobRows(p)) = GobRows(p)
<1>1. Len(p) \in Nat
  BY DEF IsRows
<1>2. GobRows(p) \in Seq({GobRow(p[i]) : i \in 1..Len(p)}) /\ Len(GobRows(p)) = Len(p)
  BY <1>1 DEF GobRows
<1>3. \A i \in 1..Len(p) : GobRows(p)[i] = GobRow(p[i])
  BY DEF GobRows
<1>4. GobRows(GobRows(p)) = GobRows(p)
  BY <1>1, <1>2, <1>3, GobRowTwice DEF GobRows
<1>5. IsRows(GobRows(p))
  BY <1>1, <1>2, <1>3 DEF IsRows
<1> QED
  BY <1>1, <1>2, <1>4, <1>5

LEMMA SentFacts ==
    ASSUME NEW p, IsRows(p)
    PROVE  /\ IsRows(Sent(p))
           /\ Len(Sent(p)) = Len(p)
<1>1. Len(GobRows(p)) = Len(p) /\ Len(p) \in Nat
  BY GobRowsFacts
<1>2. Sent(p) \in Seq({SqlRow(GobRows(p)[i]) : i \in 1..Len(p)}) /\ Len(Sent(p)) = Len(p)
  BY <1>1 DEF Sent, SqlRows
<1>3. \A i \in 1..Len(p) : Sent(p)[i] = SqlRow(GobRows(p)[i])
  BY <1>1 DEF Sent, SqlRows
<1> QED
  BY <1>1, <1>2, <1>3 DEF IsRows

\* Converting a slice is slicing the converted rows.
LEMMA SqlOfSlice ==
    ASSUME NEW rows, IsRows(rows), NEW m \in Nat, NEW n \in m..Len(rows)
    PROVE  SqlRows(SubSeq(rows, m + 1, n)) = SubSeq(SqlRows(rows), m + 1, n)
<1>0. Len(rows) \in Nat
  BY DEF IsRows
<1>1. /\ Len(SubSeq(rows, m + 1, n)) = n - m
      /\ \A i \in 1..(n - m) : SubSeq(rows, m + 1, n)[i] = rows[m + i]
  BY <1>0 DEF IsRows
<1>2. SqlRows(SubSeq(rows, m + 1, n)) = [i \in 1..(n - m) |-> SqlRow(rows[m + i])]
  BY <1>0, <1>1 DEF SqlRows
<1>3. SubSeq(SqlRows(rows), m + 1, n) = [i \in 1..(n - m) |-> SqlRow(rows[m + i])]
  BY <1>0 DEF SqlRows
<1> QED
  BY <1>2, <1>3

\* A prefix and the slice after it make a longer prefix.
LEMMA PrefixGrows ==
    ASSUME NEW rows, IsRows(rows), NEW m \in Nat, NEW n \in m..Len(rows)
    PROVE  /\ SubSeq(rows, 1, m) \o SubSeq(rows, m + 1, n) = SubSeq(rows, 1, n)
           /\ Len(SubSeq(rows, 1, n)) = n
<1>0. Len(rows) \in Nat
  BY DEF IsRows
<1> QED
  BY <1>0, SMT DEF IsRows

\* cursorSlice ends at the end of the rows, and else takes the next ones, at
\* least one and at most RowsPerTick, and moves past them.
LEMMA CutFacts ==
    ASSUME NEW rows, IsRows(rows), NEW o \in 0..Len(rows)
    PROVE  /\ o = Len(rows) =>
                cursorSlice(rows, o) = [done |-> TRUE, slice |-> << >>, offset |-> o]
           /\ o # Len(rows) => \E e \in (o + 1)..Len(rows) :
                /\ e - o <= RowsPerTick
                /\ cursorSlice(rows, o) = [done |-> FALSE, slice |-> SubSeq(rows, o + 1, e),
                                          offset |-> e]
<1>0. Len(rows) \in Nat
  BY DEF IsRows
<1>1. CASE o = Len(rows)
  BY <1>0, <1>1 DEF cursorSlice
<1>2. CASE o # Len(rows) /\ o + RowsPerTick > Len(rows)
  <2>1. cursorSlice(rows, o) = [done |-> FALSE, slice |-> SubSeq(rows, o + 1, Len(rows)),
                                offset |-> Len(rows)]
    BY <1>0, <1>2 DEF cursorSlice
  <2>2. Len(rows) \in (o + 1)..Len(rows) /\ Len(rows) - o <= RowsPerTick
    BY <1>0, <1>2, TickAssumption
  <2> QED
    BY <2>1, <2>2, <1>2, Zenon
<1>3. CASE o # Len(rows) /\ ~(o + RowsPerTick > Len(rows))
  <2>1. cursorSlice(rows, o) = [done |-> FALSE, slice |-> SubSeq(rows, o + 1, o + RowsPerTick),
                                offset |-> o + RowsPerTick]
    BY <1>0, <1>3, TickAssumption DEF cursorSlice
  <2>2. /\ o + RowsPerTick \in (o + 1)..Len(rows)
        /\ (o + RowsPerTick) - o <= RowsPerTick
    BY <1>0, <1>3, TickAssumption
  <2> QED
    BY <2>1, <2>2, <1>3, Zenon
<1> QED
  BY <1>1, <1>2, <1>3

\* Process, once the cut is known.
LEMMA ProcessOfCut ==
    ASSUME NEW st, NEW done, NEW slice, NEW offset,
           cursorSlice(st.rows, st.offset)
             = [done |-> done, slice |-> slice, offset |-> offset]
    PROVE  Process(st) = [at |-> "back", fin |-> done, batch |-> SqlRows(slice),
                          state |-> [st EXCEPT !.offset = offset]]
<1> DEFINE cut == cursorSlice(st.rows, st.offset)
<1>1. cut.done = done /\ cut.slice = slice /\ cut.offset = offset
  OBVIOUS
<1> QED
  BY <1>1 DEF Process

\* The state of a scan of p whose first o rows are out, and the answer that
\* brings the rows up to e.
State(p, o) == [rows |-> GobRows(p), offset |-> o]
Reply(p, o, e, fin) ==
    [at |-> "back", fin |-> fin, batch |-> SubSeq(Sent(p), o + 1, e),
     state |-> State(p, e)]

\* Process answers with the end, or with the next rows.
LEMMA ProcessFacts ==
    ASSUME NEW p, IsRows(p), NEW o \in 0..Len(p)
    PROVE  /\ GobState(State(p, o)) = State(p, o)
           /\ o = Len(p) => Process(State(p, o)) = Reply(p, o, o, TRUE)
           /\ o # Len(p) => \E e \in (o + 1)..Len(p) :
                /\ e - o <= RowsPerTick
                /\ Process(State(p, o)) = Reply(p, o, e, FALSE)
<1>1. /\ IsRows(GobRows(p)) /\ Len(GobRows(p)) = Len(p) /\ Len(p) \in Nat
      /\ GobRows(GobRows(p)) = GobRows(p)
  BY GobRowsFacts
<1>2. GobState(State(p, o)) = State(p, o)
  BY <1>1 DEF GobState, State
<1>3. ASSUME o = Len(p)
      PROVE  Process(State(p, o)) = Reply(p, o, o, TRUE)
  <2>1. cursorSlice(GobRows(p), o) = [done |-> TRUE, slice |-> << >>, offset |-> o]
    BY <1>1, <1>3, CutFacts
  <2>2. SqlRows(<< >>) = << >>
    BY DEF SqlRows
  <2>3. SubSeq(Sent(p), o + 1, o) = << >>
    BY SubSeqEmpty, <1>1
  <2>4. State(p, o).rows = GobRows(p) /\ State(p, o).offset = o
    BY DEF State
  <2>5. [State(p, o) EXCEPT !.offset = o] = State(p, o)
    BY DEF State
  <2>6. Process(State(p, o)) = [at |-> "back", fin |-> TRUE, batch |-> SqlRows(<< >>),
                                state |-> [State(p, o) EXCEPT !.offset = o]]
    BY <2>1, <2>4, ProcessOfCut
  <2> QED
    BY <2>2, <2>3, <2>5, <2>6 DEF Reply
<1>4. ASSUME o # Len(p)
      PROVE  \E e \in (o + 1)..Len(p) :
                /\ e - o <= RowsPerTick
                /\ Process(State(p, o)) = Reply(p, o, e, FALSE)
  <2>1. PICK e \in (o + 1)..Len(p) :
            /\ e - o <= RowsPerTick
            /\ cursorSlice(GobRows(p), o)
                 = [done |-> FALSE, slice |-> SubSeq(GobRows(p), o + 1, e), offset |-> e]
    BY <1>1, <1>4, CutFacts
  <2>2. SqlRows(SubSeq(GobRows(p), o + 1, e)) = SubSeq(Sent(p), o + 1, e)
    <3>1. o \in Nat /\ e \in o..Len(GobRows(p))
      BY <1>1, <2>1
    <3> QED
      BY <3>1, <1>1, SqlOfSlice DEF Sent
  <2>3. [State(p, o) EXCEPT !.offset = e] = State(p, e)
    BY DEF State
  <2>4. State(p, o).rows = GobRows(p) /\ State(p, o).offset = o
    BY DEF State
  <2>5. Process(State(p, o))
          = [at |-> "back", fin |-> FALSE, batch |-> SqlRows(SubSeq(GobRows(p), o + 1, e)),
             state |-> [State(p, o) EXCEPT !.offset = e]]
    <3> DEFINE st == State(p, o)
               slice == SubSeq(GobRows(p), o + 1, e)
    <3>1. cursorSlice(st.rows, st.offset) = [done |-> FALSE, slice |-> slice, offset |-> e]
      BY <2>1, <2>4, Zenon
    <3> HIDE DEF st, slice
    <3>2. Process(st) = [at |-> "back", fin |-> FALSE, batch |-> SqlRows(slice),
                         state |-> [st EXCEPT !.offset = e]]
      BY <3>1, ProcessOfCut
    <3> QED
      BY <3>2 DEF st, slice
  <2>6. Process(State(p, o)) = Reply(p, o, e, FALSE)
    BY <2>2, <2>3, <2>5 DEF Reply
  <2> QED
    BY <2>1, <2>6
<1> QED
  BY <1>2, <1>3, <1>4

----------------------------------------------------------------------------
\* The inductive invariant.  Delivery alone is not inductive: that the next
\* batch fits behind the rows the query has depends on the state the batch
\* was cut at, which a pipe keeps in the worker and HTTP in the client.  It is
\* stated of one scan's values: its transport v, phase ph, rows p, state h
\* between ticks, exchange w, and the rows g its query has.

\* A state is a cursor into the scan's own rows.
Cursor(p, st) == st.offset \in 0..Len(p) /\ st = State(p, st.offset)

\* The query has a prefix of the rows.
HasPrefix(p, g) == Len(g) \in 0..Len(p) /\ g = SubSeq(Sent(p), 1, Len(g))

\* An answer on its way back carries the rows right behind that prefix.
AnswerFits(p, w, g) ==
    /\ w.at = "back" /\ w.fin \in BOOLEAN
    /\ Cursor(p, w.state)
    /\ w.batch = SubSeq(Sent(p), Len(g) + 1, w.state.offset)
    /\ IF w.fin THEN w.state.offset = Len(g) /\ Len(g) = Len(p)
       ELSE w.state.offset - Len(g) \in 1..RowsPerTick

ScanOK(v, ph, p, h, w, g) ==
    /\ IsRows(p)
    /\ ph = "new" => p = << >>
    /\ Cursor(p, h)
    /\ HasPrefix(p, g)
    /\ \/ w = Quiet
       \/ w = Request(h) /\ ph = "open"
       \/ AnswerFits(p, w, g) /\ ph = "open" /\ (v = "pipe" => h = w.state)
    /\ v = "http" \/ (ph \in {"new", "open"} /\ w.at # "back")
         => h.offset = Len(g)
    /\ ph = "done" => Len(g) = Len(p)

ScanInv(s) == ScanOK(via[s], phase[s], plan[s], held[s], wire[s], got[s])

StreamInv ==
    /\ via \in [Scans -> {"pipe", "http"}]
    /\ phase \in [Scans -> {"new", "open", "done", "failed"}]
    /\ losses \in 0..MaxLosses /\ crashes \in 0..MaxCrashes
    /\ DOMAIN plan = Scans /\ DOMAIN held = Scans
    /\ DOMAIN wire = Scans /\ got = [s \in Scans |-> got[s]]
    /\ \A s \in Scans : ScanInv(s)

----------------------------------------------------------------------------
\* What each step does to the values of the scan it is about.

LEMMA NoRows == /\ IsRows(<< >>) /\ GobRows(<< >>) = << >> /\ Sent(<< >>) = << >>
                /\ Len(<< >>) = 0
BY DEF IsRows, GobRows, Sent, SqlRows

LEMMA Fresh == ASSUME NEW v PROVE ScanOK(v, "new", << >>, Quiet.state, Quiet, << >>)
<1>1. Quiet.state = State(<< >>, 0) /\ Quiet.state.offset = 0
  BY NoRows DEF Quiet, State
<1>2. Cursor(<< >>, Quiet.state)
  BY <1>1, NoRows DEF Cursor
<1>3. HasPrefix(<< >>, << >>)
  BY NoRows, SubSeqEmpty DEF HasPrefix
<1> QED
  BY <1>1, <1>2, <1>3, NoRows DEF ScanOK

LEMMA StepOpen ==
    ASSUME NEW v, NEW p, NEW h, NEW w, NEW g, ScanOK(v, "new", p, h, w, g),
           NEW rows, IsRows(rows)
    PROVE  ScanOK(v, "open", rows, GobState([rows |-> rows, offset |-> 0]), w, g)
<1> DEFINE st == GobState([rows |-> rows, offset |-> 0])
<1>1. st = State(rows, 0) /\ st.offset = 0
  BY DEF GobState, State
<1>2. w = Quiet
  BY DEF ScanOK
<1>3. g = << >> /\ Len(g) = 0
  BY NoRows, SubSeqEmpty DEF ScanOK, HasPrefix
<1>4. Cursor(rows, st)
  BY <1>1, GobRowsFacts DEF Cursor
<1>5. HasPrefix(rows, g)
  BY <1>3, GobRowsFacts, SubSeqEmpty DEF HasPrefix
<1> HIDE DEF st
<1>6. ScanOK(v, "open", rows, st, w, g)
  BY <1>1, <1>2, <1>3, <1>4, <1>5 DEF ScanOK
<1> QED
  BY <1>6 DEF st

LEMMA StepAsk ==
    ASSUME NEW v, NEW p, NEW h, NEW w, NEW g, ScanOK(v, "open", p, h, w, g),
           w.at = "idle"
    PROVE  ScanOK(v, "open", p, h, Request(h), g)
<1>1. w = Quiet /\ w.at # "back"
  BY DEF ScanOK, Request, AnswerFits
<1>2. Request(h).at # "back"
  BY DEF Request
<1> QED
  BY <1>1, <1>2 DEF ScanOK

LEMMA SameState ==
    ASSUME NEW fin, NEW batch, NEW st, NEW r,
           r = [at |-> "back", fin |-> fin, batch |-> batch, state |-> st]
    PROVE  r.state = st /\ [r EXCEPT !.state = st] = r
<1>1. [r EXCEPT !.state = st] = r
  BY SMTT(30)
<1> QED
  BY <1>1

\* Whatever Process answers to a cursor of the scan fits.
LEMMA ProcessFits ==
    ASSUME NEW p, IsRows(p), NEW h, Cursor(p, h), NEW g, HasPrefix(p, g),
           h.offset = Len(g)
    PROVE  /\ AnswerFits(p, Process(h), g)
           /\ GobState(h) = h
           /\ [Process(h) EXCEPT !.state = GobState(@)] = Process(h)
<1>0. Len(p) \in Nat
  BY GobRowsFacts
<1>1. h.offset \in 0..Len(p) /\ h = State(p, h.offset)
  BY DEF Cursor
<1>2. \A e \in 0..Len(p) : State(p, e).offset = e /\ GobState(State(p, e)) = State(p, e)
  BY <1>0, ProcessFacts DEF State
<1>3. \A e \in 0..Len(p) : Cursor(p, State(p, e))
  BY <1>2 DEF Cursor
<1>4. PICK e \in h.offset..Len(p), fin \in BOOLEAN :
         /\ Process(h) = Reply(p, h.offset, e, fin)
         /\ IF fin THEN e = h.offset /\ e = Len(p) ELSE e - h.offset \in 1..RowsPerTick
  <2>1. CASE h.offset = Len(p)
    <3>1. Process(h) = Reply(p, h.offset, h.offset, TRUE)
      BY <1>1, <2>1, ProcessFacts
    <3>2. h.offset \in h.offset..Len(p)
      BY <2>1, <1>0
    <3> QED
      BY <3>1, <3>2, <2>1, Zenon
  <2>2. CASE h.offset # Len(p)
    <3>1. PICK e \in (h.offset + 1)..Len(p) :
             e - h.offset <= RowsPerTick /\ Process(h) = Reply(p, h.offset, e, FALSE)
      BY <1>1, <2>2, ProcessFacts
    <3>2. e \in h.offset..Len(p) /\ e - h.offset \in 1..RowsPerTick
      BY <3>1, <1>0, <1>1, TickAssumption
    <3> QED
      BY <3>1, <3>2
  <2> QED
    BY <2>1, <2>2
<1>5. e \in 0..Len(p)
  BY <1>0, <1>1, <1>4
<1>6. AnswerFits(p, Reply(p, h.offset, e, fin), g)
  <2> DEFINE w == Reply(p, h.offset, e, fin)
  <2>1. /\ w.at = "back" /\ w.fin = fin /\ w.state = State(p, e)
        /\ w.batch = SubSeq(Sent(p), h.offset + 1, e)
    BY DEF Reply
  <2>2. w.state.offset = e /\ Cursor(p, w.state)
    BY <2>1, <1>2, <1>3, <1>5
  <2> HIDE DEF w
  <2>3. AnswerFits(p, w, g)
    BY <2>1, <2>2, <1>4 DEF AnswerFits
  <2> QED
    BY <2>3 DEF w
<1>7. [Reply(p, h.offset, e, fin) EXCEPT !.state = GobState(@)]
        = Reply(p, h.offset, e, fin)
  <2> DEFINE r == Reply(p, h.offset, e, fin)
  <2> DEFINE st == State(p, e)
  <2> DEFINE batch == SubSeq(Sent(p), h.offset + 1, e)
  <2>0. r = [at |-> "back", fin |-> fin, batch |-> batch, state |-> st]
    BY DEF Reply
  <2> HIDE DEF st, batch, r
  <2>1. r.state = st /\ [r EXCEPT !.state = st] = r
    BY <2>0, SameState
  <2>2. GobState(r.state) = st
    BY <2>1, <1>2, <1>5 DEF st
  <2>3. [r EXCEPT !.state = GobState(@)] = r
    BY <2>1, <2>2
  <2> QED
    BY <2>3 DEF r
<1> QED
  BY <1>1, <1>2, <1>4, <1>6, <1>7

LEMMA StepTickHttp ==
    ASSUME NEW ph, NEW p, NEW h, NEW w, NEW g, ScanOK("http", ph, p, h, w, g),
           w.at = "worker"
    PROVE  ScanOK("http", ph, p, h,
                  [Process(GobState(w.state)) EXCEPT !.state = GobState(@)], g)
<1>1. w = Request(h) /\ ph = "open"
  BY DEF ScanOK, AnswerFits, Quiet
<1>2. w.state = h
  BY <1>1 DEF Request
<1>3. /\ AnswerFits(p, Process(h), g)
      /\ GobState(h) = h
      /\ [Process(h) EXCEPT !.state = GobState(@)] = Process(h)
  BY <1>1, ProcessFits DEF ScanOK
<1>4. ScanOK("http", ph, p, h, Process(h), g)
  BY <1>1, <1>3 DEF ScanOK
<1> QED
  BY <1>2, <1>3, <1>4

LEMMA StepTickPipe ==
    ASSUME NEW ph, NEW p, NEW h, NEW w, NEW g, ScanOK("pipe", ph, p, h, w, g),
           w.at = "worker"
    PROVE  ScanOK("pipe", ph, p, Process(h).state, Process(h), g)
<1>1. w = Request(h) /\ ph = "open"
  BY DEF ScanOK, AnswerFits, Quiet
<1>2. AnswerFits(p, Process(h), g)
  BY <1>1, ProcessFits DEF ScanOK
<1>3. Cursor(p, Process(h).state) /\ Process(h).at = "back"
  BY <1>2 DEF AnswerFits
<1> QED
  BY <1>1, <1>2, <1>3 DEF ScanOK

\* An answer that fits makes the prefix longer.
LEMMA BatchGrows ==
    ASSUME NEW p, IsRows(p), NEW w, NEW g, AnswerFits(p, w, g), HasPrefix(p, g)
    PROVE  /\ HasPrefix(p, g \o w.batch)
           /\ Len(g \o w.batch) = w.state.offset
           /\ Len(w.batch) = w.state.offset - Len(g)
           /\ w.state.offset \in Len(g)..Len(p)
<1>0. Len(p) \in Nat /\ IsRows(Sent(p)) /\ Len(Sent(p)) = Len(p)
  BY GobRowsFacts, SentFacts
<1>1. Len(g) \in Nat /\ w.state.offset \in Len(g)..Len(Sent(p))
  BY <1>0 DEF AnswerFits, Cursor, HasPrefix
<1>2. /\ g \o w.batch = SubSeq(Sent(p), 1, w.state.offset)
      /\ Len(SubSeq(Sent(p), 1, w.state.offset)) = w.state.offset
  BY <1>0, <1>1, PrefixGrows DEF AnswerFits, HasPrefix
<1>3. Len(w.batch) = w.state.offset - Len(g)
  BY <1>0, <1>1 DEF AnswerFits, IsRows
<1> DEFINE longer == g \o w.batch
<1>4. longer = SubSeq(Sent(p), 1, w.state.offset) /\ Len(longer) = w.state.offset
  BY <1>2
<1> HIDE DEF longer
<1>5. HasPrefix(p, longer)
  BY <1>0, <1>1, <1>4 DEF HasPrefix
<1> QED
  BY <1>0, <1>1, <1>3, <1>4, <1>5 DEF longer

LEMMA StepReceive ==
    ASSUME NEW v, NEW ph, NEW p, NEW h, NEW w, NEW g, ScanOK(v, ph, p, h, w, g),
           w.at = "back"
    PROVE  ScanOK(v, IF w.fin THEN "done" ELSE ph, p, w.state, Quiet, g \o w.batch)
<1>1. AnswerFits(p, w, g) /\ ph = "open" /\ IsRows(p) /\ HasPrefix(p, g)
  BY DEF ScanOK, Request, Quiet
<1>2. HasPrefix(p, g \o w.batch) /\ Len(g \o w.batch) = w.state.offset
  BY <1>1, BatchGrows
<1>3. Cursor(p, w.state) /\ (w.fin => w.state.offset = Len(p))
  BY <1>1 DEF AnswerFits
<1> QED
  BY <1>1, <1>2, <1>3 DEF ScanOK

\* The exchange is dropped: the scan fails, or it is not one over a pipe that
\* is open.
LEMMA StepDrop ==
    ASSUME NEW v, NEW ph, NEW p, NEW h, NEW w, NEW g, ScanOK(v, ph, p, h, w, g),
           NEW after,
           \/ after = "failed"
           \/ after = ph /\ (v = "http" \/ ph # "open")
    PROVE  ScanOK(v, after, p, h, Quiet, g)
<1>1. ph = "new" => w.at # "back"
  BY DEF ScanOK, Quiet
<1> QED
  BY <1>1 DEF ScanOK

----------------------------------------------------------------------------
\* The invariant is inductive.

LEMMA StreamInitially == StreamInit => StreamInv
<1> SUFFICES ASSUME StreamInit PROVE StreamInv
  OBVIOUS
<1>1. ASSUME NEW s \in Scans PROVE ScanInv(s)
  <2>1. /\ phase[s] = "new" /\ plan[s] = << >> /\ held[s] = Quiet.state
        /\ wire[s] = Quiet /\ got[s] = << >>
    BY DEF StreamInit
  <2> QED
    BY <2>1, Fresh DEF ScanInv
<1> QED
  BY <1>1, BoundAssumption DEF StreamInit, StreamInv

\* A scan whose values stay keeps its part of the invariant.
LEMMA Untouched ==
    ASSUME NEW s, ScanInv(s), via'[s] = via[s],
           phase'[s] = phase[s], plan'[s] = plan[s], held'[s] = held[s],
           wire'[s] = wire[s], got'[s] = got[s]
    PROVE  ScanInv(s)'
BY DEF ScanInv

LEMMA OpenKeeps ==
    ASSUME StreamInv, NEW s \in Scans, NEW rows, IsRows(rows),
           Open(s, rows), UNCHANGED <<via, faults>>
    PROVE  StreamInv'
<1> DEFINE st == GobState([rows |-> rows, offset |-> 0])
<1>1. /\ phase[s] = "new" /\ phase' = [phase EXCEPT ![s] = "open"]
      /\ plan' = [plan EXCEPT ![s] = rows] /\ held' = [held EXCEPT ![s] = st]
      /\ wire' = wire /\ got' = got /\ via' = via
      /\ losses' = losses /\ crashes' = crashes
  BY DEF Open, faults
<1> HIDE DEF st
<1>2. ASSUME NEW t \in Scans, t # s PROVE ScanInv(t)'
  BY <1>1, <1>2, Untouched DEF StreamInv
<1>3. ScanInv(s)'
  <2>1. ScanOK(via[s], "new", plan[s], held[s], wire[s], got[s])
    BY <1>1 DEF StreamInv, ScanInv
  <2>2. ScanOK(via[s], "open", rows, st, wire[s], got[s])
    BY <2>1, StepOpen DEF st
  <2>3. phase'[s] = "open" /\ plan'[s] = rows /\ held'[s] = st
    BY <1>1 DEF StreamInv
  <2> QED
    BY <1>1, <2>2, <2>3 DEF ScanInv
<1> QED
  BY <1>1, <1>2, <1>3 DEF StreamInv

LEMMA ExchangeKeeps ==
    ASSUME StreamInv, NEW s \in Scans, Exchange(s)
    PROVE  StreamInv'
<1>0. via' = via /\ losses' = losses /\ crashes' = crashes
  BY DEF Exchange, faults
<1>1. CASE Ask(s)
  <2>1. /\ phase[s] = "open" /\ wire[s].at = "idle"
        /\ wire' = [wire EXCEPT ![s] = Request(held[s])]
        /\ phase' = phase /\ plan' = plan /\ held' = held /\ got' = got
    BY <1>1 DEF Ask
  <2>2. ASSUME NEW t \in Scans, t # s PROVE ScanInv(t)'
    BY <1>0, <2>1, <2>2, Untouched DEF StreamInv
  <2>3. ScanOK(via[s], "open", plan[s], held[s], Request(held[s]), got[s])
    BY <2>1, StepAsk DEF StreamInv, ScanInv
  <2>4. wire'[s] = Request(held[s])
    BY <2>1 DEF StreamInv
  <2> QED
    BY <1>0, <2>1, <2>2, <2>3, <2>4 DEF StreamInv, ScanInv
<1>2. CASE TickHttp(s)
  <2> DEFINE w == [Process(GobState(wire[s].state)) EXCEPT !.state = GobState(@)]
  <2>1. /\ wire[s].at = "worker" /\ via[s] = "http"
        /\ wire' = [wire EXCEPT ![s] = w]
        /\ phase' = phase /\ plan' = plan /\ held' = held /\ got' = got
    BY <1>2 DEF TickHttp
  <2>2. ScanOK("http", phase[s], plan[s], held[s], w, got[s])
    BY <2>1, StepTickHttp DEF StreamInv, ScanInv
  <2> HIDE DEF w
  <2>3. ASSUME NEW t \in Scans, t # s PROVE ScanInv(t)'
    BY <1>0, <2>1, <2>3, Untouched DEF StreamInv
  <2>4. wire'[s] = w
    BY <2>1 DEF StreamInv
  <2> QED
    BY <1>0, <2>1, <2>2, <2>3, <2>4 DEF StreamInv, ScanInv
<1>3. CASE TickPipe(s)
  <2>1. /\ wire[s].at = "worker" /\ via[s] = "pipe"
        /\ wire' = [wire EXCEPT ![s] = Process(held[s])]
        /\ held' = [held EXCEPT ![s] = Process(held[s]).state]
        /\ phase' = phase /\ plan' = plan /\ got' = got
    BY <1>3 DEF TickPipe
  <2>2. ScanOK("pipe", phase[s], plan[s], Process(held[s]).state,
               Process(held[s]), got[s])
    BY <2>1, StepTickPipe DEF StreamInv, ScanInv
  <2>3. ASSUME NEW t \in Scans, t # s PROVE ScanInv(t)'
    BY <1>0, <2>1, <2>3, Untouched DEF StreamInv
  <2>4. wire'[s] = Process(held[s]) /\ held'[s] = Process(held[s]).state
    BY <2>1 DEF StreamInv
  <2> QED
    BY <1>0, <2>1, <2>2, <2>3, <2>4 DEF StreamInv, ScanInv
<1>4. CASE Receive(s)
  <2> DEFINE ph == IF wire[s].fin THEN "done" ELSE phase[s]
             g  == got[s] \o wire[s].batch
  <2>1. /\ wire[s].at = "back"
        /\ got' = [got EXCEPT ![s] = g]
        /\ held' = [held EXCEPT ![s] = wire[s].state]
        /\ phase' = [phase EXCEPT ![s] = ph]
        /\ wire' = [wire EXCEPT ![s] = Quiet] /\ plan' = plan
    BY <1>4 DEF Receive
  <2>2. ScanOK(via[s], ph, plan[s], wire[s].state, Quiet, g)
    BY <2>1, StepReceive DEF StreamInv, ScanInv
  <2>3. ph \in {"new", "open", "done", "failed"}
    BY DEF StreamInv
  <2> HIDE DEF ph, g
  <2>4. ASSUME NEW t \in Scans, t # s PROVE ScanInv(t)'
    BY <1>0, <2>1, <2>4, Untouched DEF StreamInv
  <2>5. /\ got'[s] = g /\ held'[s] = wire[s].state /\ phase'[s] = ph
        /\ wire'[s] = Quiet
    BY <2>1 DEF StreamInv
  <2> QED
    BY <1>0, <2>1, <2>2, <2>3, <2>4, <2>5 DEF StreamInv, ScanInv
<1> QED
  BY <1>1, <1>2, <1>3, <1>4 DEF Exchange

LEMMA LoseKeeps ==
    ASSUME StreamInv, NEW s \in Scans, Lose(s), UNCHANGED via
    PROVE  StreamInv'
<1>1. PICK outcome \in {"open", "failed"} : phase' = [phase EXCEPT ![s] = outcome]
  BY DEF Lose
<1>2. /\ wire[s].at \in {"worker", "back"} /\ via[s] = "http"
      /\ losses < MaxLosses /\ losses' = losses + 1 /\ crashes' = crashes
      /\ wire' = [wire EXCEPT ![s] = Quiet]
      /\ via' = via /\ plan' = plan /\ held' = held /\ got' = got
  BY DEF Lose
<1>3. ASSUME NEW t \in Scans, t # s PROVE ScanInv(t)'
  BY <1>1, <1>2, <1>3, Untouched DEF StreamInv
<1>4. ScanInv(s)'
  <2>1. ScanOK(via[s], phase[s], plan[s], held[s], wire[s], got[s])
    BY DEF StreamInv, ScanInv
  <2>2. phase[s] = "open"
    BY <1>2, <2>1 DEF ScanOK, Quiet
  <2>3. ScanOK(via[s], outcome, plan[s], held[s], Quiet, got[s])
    BY <1>2, <2>1, <2>2, StepDrop
  <2>4. phase'[s] = outcome /\ wire'[s] = Quiet
    BY <1>1, <1>2 DEF StreamInv
  <2> QED
    BY <1>2, <2>3, <2>4 DEF ScanInv
<1>5. losses' \in 0..MaxLosses
  BY <1>2, BoundAssumption DEF StreamInv
<1> QED
  BY <1>1, <1>2, <1>3, <1>4, <1>5 DEF StreamInv

LEMMA CancelKeeps ==
    ASSUME StreamInv, NEW s \in Scans, Cancel(s), UNCHANGED <<via, faults>>
    PROVE  StreamInv'
<1>1. /\ phase' = [phase EXCEPT ![s] = "failed"]
      /\ wire' = [wire EXCEPT ![s] = Quiet]
      /\ plan' = plan /\ held' = held /\ got' = got /\ via' = via
      /\ losses' = losses /\ crashes' = crashes
  BY DEF Cancel, faults
<1>2. ASSUME NEW t \in Scans, t # s PROVE ScanInv(t)'
  BY <1>1, <1>2, Untouched DEF StreamInv
<1>3. ScanInv(s)'
  <2>1. ScanOK(via[s], "failed", plan[s], held[s], Quiet, got[s])
    BY StepDrop DEF StreamInv, ScanInv
  <2>2. phase'[s] = "failed" /\ wire'[s] = Quiet
    BY <1>1 DEF StreamInv
  <2> QED
    BY <1>1, <2>1, <2>2 DEF ScanInv
<1> QED
  BY <1>1, <1>2, <1>3 DEF StreamInv

LEMMA CrashKeeps ==
    ASSUME StreamInv, Crash, UNCHANGED via
    PROVE  StreamInv'
<1>1. /\ crashes < MaxCrashes /\ crashes' = crashes + 1 /\ losses' = losses
      /\ phase' = [s \in Scans |->
                      IF via[s] = "pipe" /\ phase[s] = "open" THEN "failed"
                      ELSE phase[s]]
      /\ wire' = [s \in Scans |-> Quiet]
      /\ plan' = plan /\ held' = held /\ got' = got /\ via' = via
  BY DEF Crash
<1>2. ASSUME NEW s \in Scans PROVE ScanInv(s)'
  <2>1. /\ via[s] \in {"pipe", "http"}
        /\ ScanOK(via[s], phase[s], plan[s], held[s], wire[s], got[s])
    BY DEF StreamInv, ScanInv
  <2>2. \/ phase'[s] = "failed"
        \/ phase'[s] = phase[s] /\ (via[s] = "http" \/ phase[s] # "open")
    BY <1>1, <2>1
  <2>3. ScanOK(via[s], phase'[s], plan[s], held[s], Quiet, got[s])
    BY <2>1, <2>2, StepDrop
  <2> QED
    BY <1>1, <2>3 DEF ScanInv
<1>3. phase' \in [Scans -> {"new", "open", "done", "failed"}]
  BY <1>1 DEF StreamInv
<1>4. crashes' \in 0..MaxCrashes
  BY <1>1, BoundAssumption DEF StreamInv
<1> QED
  BY <1>1, <1>2, <1>3, <1>4 DEF StreamInv

LEMMA StreamInductive == StreamInv /\ [StreamNext]_streamVars => StreamInv'
<1> SUFFICES ASSUME StreamInv, [StreamNext]_streamVars PROVE StreamInv'
  OBVIOUS
<1>1. ASSUME NEW s \in Scans, NEW rows \in Streams,
             Open(s, rows), UNCHANGED <<via, faults>>
      PROVE  StreamInv'
  BY <1>1, StreamAssumption, OpenKeeps
<1>2. ASSUME NEW s \in Scans, Exchange(s) PROVE StreamInv'
  BY <1>2, ExchangeKeeps
<1>3. ASSUME NEW s \in Scans, Lose(s), UNCHANGED via PROVE StreamInv'
  BY <1>3, LoseKeeps
<1>4. ASSUME NEW s \in Scans, Cancel(s), UNCHANGED <<via, faults>> PROVE StreamInv'
  BY <1>4, CancelKeeps
<1>5. CASE Crash /\ UNCHANGED via
  BY <1>5, CrashKeeps
<1>6. CASE UNCHANGED streamVars
  <2>1. ASSUME NEW s \in Scans PROVE ScanInv(s)'
    BY <1>6, Untouched DEF streamVars, StreamInv
  <2> QED
    BY <1>6, <2>1 DEF streamVars, StreamInv
<1> QED
  BY <1>1, <1>2, <1>3, <1>4, <1>5, <1>6 DEF StreamNext

LEMMA StreamInvariance == StreamSpec => []StreamInv
BY StreamInitially, StreamInductive, PTL DEF StreamSpec

----------------------------------------------------------------------------
\* What follows from it.

LEMMA AnswerBounds ==
    ASSUME NEW p, IsRows(p), NEW w, NEW g, AnswerFits(p, w, g), HasPrefix(p, g)
    PROVE  IF w.fin THEN w.batch = << >> ELSE Len(w.batch) \in 1..RowsPerTick
<1>1. CASE w.fin
  BY <1>1, SubSeqEmpty DEF AnswerFits, HasPrefix
<1>2. CASE ~w.fin
  BY <1>2, BatchGrows DEF AnswerFits
<1> QED
  BY <1>1, <1>2

LEMMA StreamTyped == StreamInv => StreamTypeOK
<1> SUFFICES ASSUME StreamInv, NEW s \in Scans
             PROVE  /\ Exchanges(wire[s])
                    /\ held[s].offset \in 0..Len(plan[s])
                    /\ wire[s].state.offset \in 0..Len(plan[s])
  BY DEF StreamInv, StreamTypeOK
<1>1. ScanOK(via[s], phase[s], plan[s], held[s], wire[s], got[s])
  BY DEF StreamInv, ScanInv
<1>2. Len(plan[s]) \in Nat /\ held[s].offset \in 0..Len(plan[s])
  BY <1>1, GobRowsFacts DEF ScanOK, Cursor
<1>3. CASE wire[s] = Quiet
  BY <1>2, <1>3 DEF Quiet, Exchanges
<1>4. CASE wire[s] = Request(held[s])
  BY <1>2, <1>4 DEF Request, Exchanges
<1>5. CASE AnswerFits(plan[s], wire[s], got[s])
  BY <1>2, <1>5 DEF AnswerFits, Cursor, Exchanges
<1> QED
  BY <1>1, <1>2, <1>3, <1>4, <1>5 DEF ScanOK

\* Every state, exchange and cursor the stream keeps is well-formed, for every
\* number of scans, losses and crashes.
THEOREM StreamTypeCorrect == StreamSpec => []StreamTypeOK
BY StreamTyped, StreamInvariance, PTL

LEMMA StreamExact == StreamInv => ExactlyOnce
<1> SUFFICES ASSUME StreamInv, NEW s \in Scans
             PROVE  /\ got[s] = SubSeq(Promised(s), 1, Len(got[s]))
                    /\ phase[s] = "done" => got[s] = Promised(s)
  BY DEF ExactlyOnce
<1>1. ScanOK(via[s], phase[s], plan[s], held[s], wire[s], got[s])
  BY DEF StreamInv, ScanInv
<1>2. Promised(s) = Sent(plan[s])
  BY DEF Promised, Sent
<1>3. IsRows(Sent(plan[s])) /\ Len(Sent(plan[s])) = Len(plan[s])
  BY <1>1, SentFacts DEF ScanOK
<1>4. SubSeq(Sent(plan[s]), 1, Len(Sent(plan[s]))) = Sent(plan[s])
  BY <1>3 DEF IsRows
<1> QED
  BY <1>1, <1>2, <1>3, <1>4 DEF ScanOK, HasPrefix

\* The query has the first rows of the scan, each once and in order, and all
\* of them when the scan ends without an error, whatever is lost, asked again
\* or restarted (cursorSlice, Process and the token of functions.go:33-68).
THEOREM ExactlyOnceCorrect == StreamSpec => []ExactlyOnce
BY StreamExact, StreamInvariance, PTL

\* Every answer of Process ends the stream or brings between one row and
\* RowsPerTick of them.
THEOREM TicksBoundedCorrect == StreamSpec => []TicksAreBounded
<1>1. StreamInv => TicksAreBounded
  <2> SUFFICES ASSUME StreamInv, NEW s \in Scans, wire[s].at = "back"
               PROVE  IF wire[s].fin THEN wire[s].batch = << >>
                      ELSE Len(wire[s].batch) \in 1..RowsPerTick
    BY DEF TicksAreBounded
  <2>1. /\ IsRows(plan[s]) /\ HasPrefix(plan[s], got[s])
        /\ AnswerFits(plan[s], wire[s], got[s])
    BY DEF StreamInv, ScanInv, ScanOK, Quiet, Request
  <2> QED
    BY <2>1, AnswerBounds
<1> QED
  BY <1>1, StreamInvariance, PTL

\* Over HTTP the client's token is always as far along as the rows it has, so
\* it moves with every batch taken and at no other time (functions.go:33-48).
THEOREM TokenFollowsRowsCorrect == StreamSpec => TokenFollowsRows
<1>1. StreamInv /\ StreamInv' /\ [StreamNext]_streamVars
      => [\A s \in Scans :
            via[s] = "http" /\ phase[s] = "open"
            => held'[s].offset - held[s].offset = Len(got'[s]) - Len(got[s])]_streamVars
  <2> SUFFICES ASSUME StreamInv, StreamInv', [StreamNext]_streamVars,
                      NEW s \in Scans, via[s] = "http"
               PROVE  held'[s].offset - held[s].offset = Len(got'[s]) - Len(got[s])
    OBVIOUS
  <2>1. via' = via
    BY DEF StreamNext, Exchange, streamVars
  <2>2. held[s].offset = Len(got[s])
    BY DEF StreamInv, ScanInv, ScanOK
  <2>3. held'[s].offset = Len(got'[s])
    BY <2>1 DEF StreamInv, ScanInv, ScanOK
  <2> QED
    BY <2>2, <2>3
<1>2. StreamSpec => [][StreamNext]_streamVars
  BY DEF StreamSpec
<1> QED
  BY <1>1, <1>2, StreamInvariance, PTL DEF TokenFollowsRows

----------------------------------------------------------------------------
\* Each scan is a Delivery of its rows as gob leaves them.

LEMMA DeliveryInit == StreamInit => Promise!Init
<1> SUFFICES ASSUME StreamInit PROVE Promise!Init
  OBVIOUS
<1>1. \A s \in Scans : Promised(s) = << >>
  BY NoRows DEF StreamInit, Promised, Sent
<1> QED
  BY <1>1 DEF StreamInit, Promise!Init

\* An Open is the abstract Decide.
LEMMA DecideStep ==
    ASSUME StreamInv, NEW s \in Scans, NEW rows \in Streams, Open(s, rows)
    PROVE  Promise!Decide(s)
<1> DEFINE Rows == {SqlRow(GobRow(r)) :
                      r \in UNION {{p[i] : i \in 1..Len(p)} : p \in Streams}}
<1>1. /\ phase[s] = "new" /\ phase' = [phase EXCEPT ![s] = "open"]
      /\ plan' = [plan EXCEPT ![s] = rows] /\ got' = got
  BY DEF Open
<1>2. plan'[s] = rows /\ \A t \in Scans : t # s => plan'[t] = plan[t]
  BY <1>1 DEF StreamInv
<1>3. Promised(s)' = Sent(rows) /\ \A t \in Scans : t # s => Promised(t)' = Promised(t)
  BY <1>2 DEF Promised, Sent
<1>4. Sent(rows) \in Seq(Rows)
  <2>1. IsRows(rows) /\ Len(rows) \in Nat /\ Len(GobRows(rows)) = Len(rows)
    BY StreamAssumption, GobRowsFacts
  <2>2. \A i \in 1..Len(rows) : rows[i] \in UNION {{p[i_1] : i_1 \in 1..Len(p)} : p \in Streams}
    OBVIOUS
  <2>3. \A i \in 1..Len(rows) : SqlRow(GobRow(rows[i])) \in Rows
    BY <2>2
  <2>4. Sent(rows) = [i \in 1..Len(rows) |-> SqlRow(GobRow(rows[i]))]
    BY <2>1 DEF Sent, SqlRows, GobRows
  <2> HIDE DEF Rows
  <2> QED
    BY <2>1, <2>3, <2>4
<1> HIDE DEF Rows
<1>5. [t \in Scans |-> Promised(t)]' = [[t \in Scans |-> Promised(t)] EXCEPT ![s] = Sent(rows)]
  BY <1>3
<1> QED
  BY <1>1, <1>3, <1>4, <1>5 DEF Promise!Decide, Rows

\* Taking an answer is the abstract Deliver, or Complete.
LEMMA DeliverStep ==
    ASSUME StreamInv, NEW s \in Scans, Receive(s)
    PROVE  Promise!Deliver(s) \/ Promise!Complete(s)
<1>1. /\ wire[s].at = "back"
      /\ got' = [got EXCEPT ![s] = @ \o wire[s].batch]
      /\ phase' = [phase EXCEPT ![s] = IF wire[s].fin THEN "done" ELSE @]
      /\ plan' = plan
  BY DEF Receive
<1>2. /\ IsRows(plan[s]) /\ HasPrefix(plan[s], got[s]) /\ phase[s] = "open"
      /\ AnswerFits(plan[s], wire[s], got[s])
  BY <1>1 DEF StreamInv, ScanInv, ScanOK, Quiet, Request
<1>3. /\ Promised(s) = Sent(plan[s]) /\ IsRows(Sent(plan[s]))
      /\ Len(Sent(plan[s])) = Len(plan[s])
  BY <1>2, SentFacts DEF Promised, Sent
<1>4. [t \in Scans |-> Promised(t)]' = [t \in Scans |-> Promised(t)]
  BY <1>1 DEF Promised
<1>5. CASE wire[s].fin
  <2>1. wire[s].batch = << >> /\ Len(got[s]) = Len(plan[s])
    BY <1>2, <1>5, AnswerBounds DEF AnswerFits
  <2>2. got[s] = Promised(s) /\ got[s] \o << >> = got[s]
    BY <2>1, <1>2, <1>3 DEF HasPrefix, IsRows
  <2>3. got' = got
    BY <1>1, <2>1, <2>2 DEF StreamInv
  <2> QED
    BY <1>1, <1>2, <1>4, <1>5, <2>2, <2>3 DEF Promise!Complete
<1>6. CASE ~wire[s].fin
  <2> DEFINE n == wire[s].state.offset
  <2>1. n \in (Len(got[s]) + 1)..Len(Promised(s))
    BY <1>2, <1>3, <1>6, GobRowsFacts DEF AnswerFits, Cursor, HasPrefix
  <2>2. got[s] \o wire[s].batch = SubSeq(Promised(s), 1, n)
    <3> DEFINE longer == got[s] \o wire[s].batch
    <3>1. HasPrefix(plan[s], longer) /\ Len(longer) = n
      BY <1>2, BatchGrows
    <3> HIDE DEF longer
    <3>2. longer = SubSeq(Promised(s), 1, n)
      BY <3>1, <1>3 DEF HasPrefix
    <3> QED
      BY <3>2 DEF longer
  <2>3. phase' = phase
    BY <1>1, <1>6 DEF StreamInv
  <2>4. got' = [got EXCEPT ![s] = SubSeq(Promised(s), 1, n)]
    BY <1>1, <2>2
  <2> HIDE DEF n
  <2> QED
    BY <1>2, <1>4, <2>1, <2>3, <2>4 DEF Promise!Deliver
<1> QED
  BY <1>5, <1>6

\* What ends scans early is the abstract Fail.
LEMMA FailStep ==
    ASSUME StreamInv, NEW F \in SUBSET {s \in Scans : phase[s] \in {"new", "open"}},
           phase' = [s \in Scans |-> IF s \in F THEN "failed" ELSE phase[s]],
           plan' = plan, got' = got
    PROVE  Promise!Fail
BY DEF Promise!Fail, Promised

\* Whatever happens to the transport and the worker, a scan hands a query its
\* rows in order, each once, and ends with all of them or with an error: the
\* producer loop of functions.go implements Delivery.
THEOREM StreamDeliversCorrect == StreamSpec => StreamDelivers
<1>1. StreamInv /\ [StreamNext]_streamVars => [Promise!Next]_(Promise!vars)
  <2> SUFFICES ASSUME StreamInv, [StreamNext]_streamVars
               PROVE  Promise!Next \/ UNCHANGED Promise!vars
    OBVIOUS
  <2>1. ASSUME NEW s \in Scans, NEW rows \in Streams, Open(s, rows)
        PROVE  Promise!Next
    BY <2>1, DecideStep DEF Promise!Next
  <2>2. ASSUME phase' = phase, plan' = plan, got' = got
        PROVE  UNCHANGED Promise!vars
    BY <2>2 DEF Promise!vars, Promised
  <2>3. ASSUME NEW s \in Scans, Exchange(s)
        PROVE  Promise!Next \/ UNCHANGED Promise!vars
    <3>1. CASE Ask(s) \/ TickHttp(s) \/ TickPipe(s)
      BY <3>1, <2>2 DEF Ask, TickHttp, TickPipe
    <3>2. CASE Receive(s)
      BY <3>2, DeliverStep DEF Promise!Next
    <3> QED
      BY <2>3, <3>1, <3>2 DEF Exchange
  <2>4. ASSUME NEW s \in Scans, plan' = plan, got' = got, phase[s] \in {"new", "open"},
               phase' = [phase EXCEPT ![s] = "failed"]
        PROVE  Promise!Next
    <3>1. phase' = [t \in Scans |-> IF t \in {s} THEN "failed" ELSE phase[t]]
      BY <2>4 DEF StreamInv
    <3> QED
      BY <3>1, <2>4, FailStep DEF Promise!Next
  <2>5. ASSUME NEW s \in Scans, Lose(s)
        PROVE  Promise!Next \/ UNCHANGED Promise!vars
    <3>1. /\ wire[s].at \in {"worker", "back"} /\ plan' = plan /\ got' = got
          /\ \/ phase' = [phase EXCEPT ![s] = "open"]
             \/ phase' = [phase EXCEPT ![s] = "failed"]
      BY <2>5 DEF Lose
    <3>2. phase[s] = "open" /\ [phase EXCEPT ![s] = "open"] = phase
      BY <3>1 DEF StreamInv, ScanInv, ScanOK, Quiet
    <3> QED
      BY <3>1, <3>2, <2>2, <2>4
  <2>6. ASSUME NEW s \in Scans, Cancel(s)
        PROVE  Promise!Next
    BY <2>6, <2>4 DEF Cancel
  <2>7. CASE Crash
    <3> DEFINE F == {s \in Scans : via[s] = "pipe" /\ phase[s] = "open"}
    <3>1. /\ phase' = [s \in Scans |-> IF s \in F THEN "failed" ELSE phase[s]]
          /\ plan' = plan /\ got' = got
      BY <2>7 DEF Crash
    <3>2. F \in SUBSET {s \in Scans : phase[s] \in {"new", "open"}}
      OBVIOUS
    <3> QED
      BY <3>1, <3>2, FailStep DEF Promise!Next
  <2>8. CASE UNCHANGED streamVars
    BY <2>8, <2>2 DEF streamVars
  <2> QED
    BY <2>1, <2>3, <2>5, <2>6, <2>7, <2>8 DEF StreamNext
<1>2. StreamSpec => [][StreamNext]_streamVars /\ StreamInit
  BY DEF StreamSpec
<1> QED
  BY <1>1, <1>2, DeliveryInit, StreamInvariance, PTL DEF StreamDelivers, Promise!Spec

----------------------------------------------------------------------------
\* A scan comes to an end.

\* How many steps a scan of rows p may still take when its exchange is w and
\* its query has g: three for each batch to come and for the end, less those
\* the exchange under way has behind it.
Remaining(p, w, g) ==
    3 * (Len(p) - Len(g) + 1)
    - (CASE w.at = "idle" -> 0 [] w.at = "worker" -> 1 [] OTHER -> 2)

\* A loss or a death puts a scan back by one exchange.
FaultsLeft == 3 * ((MaxLosses - losses) + (MaxCrashes - crashes))

StreamLeft(s) ==
    FaultsLeft + (IF phase[s] = "open" THEN Remaining(plan[s], wire[s], got[s]) ELSE 0)

ScanUnmoved(s) == UNCHANGED <<phase[s], plan[s], held[s], wire[s], got[s]>>

\* Once a scan is open its rows are settled, it is never new again, and every
\* step that is about it leaves it fewer to take: a scan of n rows is over after
\* 3 * (n + 1) steps of its own, and three more for each fault.  The endless
\* scan of functions.go:33-48, whose cursor stood still, is what this excludes.
ScansShorten ==
    [][\A s \in Scans :
         phase[s] # "new" =>
            /\ phase'[s] # "new" /\ plan'[s] = plan[s]
            /\ StreamLeft(s) \in Nat
            /\ ScanUnmoved(s) \/ StreamLeft(s)' < StreamLeft(s)]_streamVars

LEMMA RemainingDrops ==
    ASSUME NEW p, NEW w, NEW g, NEW w2, NEW g2,
           Len(p) \in Nat, Len(g) \in Nat, Len(g2) \in Nat,
           \/ w.at = "idle" /\ w2.at = "worker" /\ Len(g2) = Len(g)
           \/ w.at = "worker" /\ w2.at = "back" /\ Len(g2) = Len(g)
           \/ w.at = "back" /\ w2.at = "idle" /\ Len(g2) > Len(g)
    PROVE  Remaining(p, w2, g2) < Remaining(p, w, g)
BY DEF Remaining

LEMMA RemainingBounds ==
    ASSUME NEW p, IsRows(p), NEW w, NEW g, HasPrefix(p, g)
    PROVE  /\ Remaining(p, w, g) \in 1..(3 * (Len(p) + 1))
           /\ Remaining(p, Quiet, g) <= Remaining(p, w, g) + 2
<1>1. Len(p) \in Nat /\ Len(g) \in 0..Len(p)
  BY GobRowsFacts DEF HasPrefix
<1>2. Quiet.at = "idle"
  BY DEF Quiet
<1> QED
  BY <1>1, <1>2 DEF Remaining

\* A step of an exchange brings the scan on, or ends it.
LEMMA ExchangeShortens ==
    ASSUME StreamInv, NEW s \in Scans, Exchange(s)
    PROVE  /\ phase[s] = "open" /\ plan' = plan /\ FaultsLeft' = FaultsLeft
           /\ \/ phase'[s] = "done"
              \/ /\ phase'[s] = "open"
                 /\ Remaining(plan[s], wire'[s], got'[s]) < Remaining(plan[s], wire[s], got[s])
           /\ \A t \in Scans \ {s} : ScanUnmoved(t)
<1>1. ScanOK(via[s], phase[s], plan[s], held[s], wire[s], got[s])
  BY DEF StreamInv, ScanInv
<1>2. IsRows(plan[s]) /\ HasPrefix(plan[s], got[s]) /\ Len(plan[s]) \in Nat
      /\ Len(got[s]) \in 0..Len(plan[s])
  BY <1>1, GobRowsFacts DEF ScanOK, HasPrefix
<1>3. plan' = plan /\ FaultsLeft' = FaultsLeft
  BY DEF Exchange, Ask, TickHttp, TickPipe, Receive, faults, FaultsLeft
<1>4. ASSUME NEW w, wire' = [wire EXCEPT ![s] = w], phase' = phase, got' = got,
             \/ wire[s].at = "idle" /\ w.at = "worker"
             \/ wire[s].at = "worker" /\ w.at = "back"
      PROVE  Remaining(plan[s], wire'[s], got'[s]) < Remaining(plan[s], wire[s], got[s])
  <2>1. wire'[s] = w /\ got'[s] = got[s]
    BY <1>4 DEF StreamInv
  <2>2. Len(plan[s]) \in Nat /\ Len(got[s]) \in Nat
    BY <1>2
  <2>3. Remaining(plan[s], w, got[s]) < Remaining(plan[s], wire[s], got[s])
    BY <1>4, <2>2, RemainingDrops, Zenon
  <2> QED
    BY <2>1, <2>3
<1>5. CASE Ask(s)
  <2>1. Request(held[s]).at = "worker"
    BY DEF Request
  <2>2. Remaining(plan[s], wire'[s], got'[s]) < Remaining(plan[s], wire[s], got[s])
    BY <1>4, <1>5, <2>1 DEF Ask
  <2> QED
    BY <1>3, <1>5, <2>2 DEF Ask, ScanUnmoved, StreamInv
<1>6. CASE TickHttp(s) \/ TickPipe(s)
  <2>1. wire[s].at = "worker"
    BY <1>6 DEF TickHttp, TickPipe
  <2>2. wire[s] = Request(held[s]) /\ phase[s] = "open"
    BY <1>1, <2>1 DEF ScanOK, Quiet, AnswerFits
  <2>3. AnswerFits(plan[s], Process(held[s]), got[s]) /\ GobState(held[s]) = held[s]
        /\ [Process(held[s]) EXCEPT !.state = GobState(@)] = Process(held[s])
    BY <1>1, <2>1, <2>2, ProcessFits DEF ScanOK
  <2>4. wire[s].state = held[s]
    BY <2>2 DEF Request
  <2>5. wire' = [wire EXCEPT ![s] = Process(held[s])]
    BY <1>6, <2>3, <2>4 DEF TickHttp, TickPipe
  <2>6. Process(held[s]).at = "back"
    BY <2>3 DEF AnswerFits
  <2>7. phase' = phase /\ got' = got
    BY <1>6 DEF TickHttp, TickPipe
  <2>8. Remaining(plan[s], wire'[s], got'[s]) < Remaining(plan[s], wire[s], got[s])
    BY <1>4, <2>1, <2>5, <2>6, <2>7
  <2>9. \A t \in Scans \ {s} : ScanUnmoved(t)
    BY <1>3, <1>6, <2>5, <2>7 DEF TickHttp, TickPipe, ScanUnmoved, StreamInv
  <2> QED
    BY <1>3, <2>2, <2>7, <2>8, <2>9
<1>7. CASE Receive(s)
  <2>1. AnswerFits(plan[s], wire[s], got[s]) /\ phase[s] = "open" /\ wire[s].at = "back"
    BY <1>1, <1>7 DEF Receive, ScanOK, Quiet, Request
  <2> DEFINE longer == got[s] \o wire[s].batch
  <2>2. got' = [got EXCEPT ![s] = longer] /\ wire' = [wire EXCEPT ![s] = Quiet]
        /\ held' = [held EXCEPT ![s] = wire[s].state]
        /\ phase' = [phase EXCEPT ![s] = IF wire[s].fin THEN "done" ELSE phase[s]]
    BY <1>7 DEF Receive
  <2>3. Len(longer) = wire[s].state.offset /\ wire[s].state.offset \in Len(got[s])..Len(plan[s])
    BY <1>2, <2>1, BatchGrows
  <2> HIDE DEF longer
  <2>4. got'[s] = longer /\ wire'[s] = Quiet /\ Quiet.at = "idle"
    BY <2>2 DEF StreamInv, Quiet
  <2>5. \A t \in Scans \ {s} : ScanUnmoved(t)
    BY <1>3, <2>2 DEF ScanUnmoved, StreamInv
  <2>6. CASE wire[s].fin
    BY <1>3, <2>1, <2>2, <2>5, <2>6 DEF StreamInv
  <2>7. CASE ~wire[s].fin
    <3>1. Len(longer) - Len(got[s]) >= 1
      BY <2>1, <2>3, <2>7, <1>2 DEF AnswerFits
    <3>2. Remaining(plan[s], wire'[s], got'[s]) < Remaining(plan[s], wire[s], got[s])
      <4>1. Len(plan[s]) \in Nat /\ Len(got[s]) \in Nat /\ Len(longer) \in Nat
            /\ Len(longer) > Len(got[s])
        BY <1>2, <2>3, <3>1
      <4>2. wire[s].at = "back" /\ Quiet.at = "idle"
        BY <2>1, <2>4
      <4>3. Remaining(plan[s], Quiet, longer) < Remaining(plan[s], wire[s], got[s])
        BY <4>1, <4>2, RemainingDrops, Zenon
      <4> QED
        BY <2>4, <4>3
    <3> QED
      BY <1>3, <2>1, <2>2, <2>5, <2>7, <3>2 DEF StreamInv
  <2> QED
    BY <2>6, <2>7
<1> QED
  BY <1>5, <1>6, <1>7 DEF Exchange

\* A lost exchange costs less than the loss was worth.
LEMMA LoseShortens ==
    ASSUME StreamInv, NEW s \in Scans, Lose(s)
    PROVE  /\ phase[s] = "open" /\ plan' = plan /\ FaultsLeft' = FaultsLeft - 3
           /\ phase'[s] \in {"open", "failed"}
           /\ Remaining(plan[s], wire'[s], got'[s]) <= Remaining(plan[s], wire[s], got[s]) + 2
           /\ \A t \in Scans \ {s} : ScanUnmoved(t)
<1>1. ScanOK(via[s], phase[s], plan[s], held[s], wire[s], got[s])
  BY DEF StreamInv, ScanInv
<1>2. PICK outcome \in {"open", "failed"} : phase' = [phase EXCEPT ![s] = outcome]
  BY DEF Lose
<1>3. /\ wire[s].at \in {"worker", "back"} /\ losses' = losses + 1 /\ crashes' = crashes
      /\ wire' = [wire EXCEPT ![s] = Quiet]
      /\ plan' = plan /\ held' = held /\ got' = got
  BY DEF Lose
<1>4. phase[s] = "open" /\ phase'[s] = outcome /\ wire'[s] = Quiet
  BY <1>1, <1>2, <1>3 DEF ScanOK, Quiet, StreamInv
<1>5. FaultsLeft' = FaultsLeft - 3
  BY <1>3, BoundAssumption DEF FaultsLeft, StreamInv
<1>6. Remaining(plan[s], wire'[s], got'[s]) <= Remaining(plan[s], wire[s], got[s]) + 2
  BY <1>1, <1>3, <1>4, RemainingBounds DEF ScanOK
<1>7. \A t \in Scans \ {s} : ScanUnmoved(t)
  BY <1>2, <1>3 DEF ScanUnmoved, StreamInv
<1> QED
  BY <1>3, <1>4, <1>5, <1>6, <1>7

\* So does a death of the worker, for every scan.
LEMMA DeathShortens ==
    ASSUME StreamInv, crashes' = crashes + 1, losses' = losses,
           wire' = [s \in Scans |-> Quiet], plan' = plan, got' = got
    PROVE  /\ FaultsLeft' = FaultsLeft - 3
           /\ \A s \in Scans :
                 Remaining(plan[s], wire'[s], got'[s])
                   <= Remaining(plan[s], wire[s], got[s]) + 2
<1>1. FaultsLeft' = FaultsLeft - 3
  BY BoundAssumption DEF FaultsLeft, StreamInv
<1>2. ASSUME NEW s \in Scans
      PROVE  Remaining(plan[s], wire'[s], got'[s]) <= Remaining(plan[s], wire[s], got[s]) + 2
  BY RemainingBounds DEF StreamInv, ScanInv, ScanOK
<1> QED
  BY <1>1, <1>2

LEMMA FaultsAreNat == StreamInv => FaultsLeft \in Nat
BY BoundAssumption DEF StreamInv, FaultsLeft

LEMMA RemainingIsPositive ==
    ASSUME StreamInv, NEW s \in Scans
    PROVE  Remaining(plan[s], wire[s], got[s]) \in Nat \ {0}
<1>1. IsRows(plan[s]) /\ HasPrefix(plan[s], got[s]) /\ Len(plan[s]) \in Nat
  BY GobRowsFacts DEF StreamInv, ScanInv, ScanOK
<1>2. Remaining(plan[s], wire[s], got[s]) \in 1..(3 * (Len(plan[s]) + 1))
  BY <1>1, RemainingBounds
<1> QED
  BY <1>1, <1>2

\* Whatever is lost, asked again or restarted, an open scan only ever comes
\* closer to its end (cursorSlice and the producer loop of functions.go).
THEOREM ScansShortenCorrect == StreamSpec => ScansShorten
<1>1. StreamInv /\ StreamInv' /\ [StreamNext]_streamVars
      => [\A s \in Scans :
            phase[s] # "new" =>
               /\ phase'[s] # "new" /\ plan'[s] = plan[s]
               /\ StreamLeft(s) \in Nat
               /\ ScanUnmoved(s) \/ StreamLeft(s)' < StreamLeft(s)]_streamVars
  <2> SUFFICES ASSUME StreamInv, StreamInv', StreamNext, NEW s \in Scans, phase[s] # "new"
               PROVE  /\ phase'[s] # "new" /\ plan'[s] = plan[s]
                      /\ StreamLeft(s) \in Nat
                      /\ ScanUnmoved(s) \/ StreamLeft(s)' < StreamLeft(s)
    OBVIOUS
  <2>1. /\ FaultsLeft \in Nat /\ FaultsLeft' \in Nat
        /\ Remaining(plan[s], wire[s], got[s]) \in Nat \ {0}
        /\ Remaining(plan'[s], wire'[s], got'[s]) \in Nat \ {0}
    <3>1. FaultsLeft' \in Nat
      BY BoundAssumption DEF StreamInv, FaultsLeft
    <3>2. ScanOK(via'[s], phase'[s], plan'[s], held'[s], wire'[s], got'[s])
      BY DEF StreamInv, ScanInv
    <3>3. Remaining(plan'[s], wire'[s], got'[s]) \in 1..(3 * (Len(plan'[s]) + 1))
          /\ Len(plan'[s]) \in Nat
      BY <3>2, RemainingBounds, GobRowsFacts DEF ScanOK
    <3> QED
      BY <3>1, <3>3, FaultsAreNat, RemainingIsPositive
  <2>2. StreamLeft(s) \in Nat
    BY <2>1 DEF StreamLeft
  <2> DEFINE Good(t) == /\ phase'[t] # "new" /\ plan'[t] = plan[t]
                        /\ ScanUnmoved(t) \/ StreamLeft(t)' < StreamLeft(t)
  <2>3. ASSUME ScanUnmoved(s) PROVE Good(s)
    BY <2>3 DEF ScanUnmoved
  <2>4. ASSUME NEW r \in Scans, NEW rows \in Streams, Open(r, rows)
        PROVE  Good(s)
    <3>1. ScanUnmoved(s)
      BY <2>4 DEF Open, ScanUnmoved, StreamInv
    <3> QED
      BY <2>3, <3>1
  <2>5. ASSUME NEW r \in Scans, Exchange(r)
        PROVE  Good(s)
    <3>1. CASE r # s
      BY <2>3, <2>5, <3>1, ExchangeShortens
    <3>2. CASE r = s
      BY <2>1, <2>5, <3>2, ExchangeShortens DEF StreamLeft
    <3> QED
      BY <3>1, <3>2
  <2>6. ASSUME NEW r \in Scans, Lose(r)
        PROVE  Good(s)
    <3>1. CASE r # s
      BY <2>3, <2>6, <3>1, LoseShortens
    <3>2. CASE r = s
      BY <2>1, <2>6, <3>2, LoseShortens DEF StreamLeft
    <3> QED
      BY <3>1, <3>2
  <2>7. ASSUME NEW r \in Scans, Cancel(r), UNCHANGED faults
        PROVE  Good(s)
    <3>1. CASE r # s
      <4>1. ScanUnmoved(s)
        BY <2>7, <3>1 DEF Cancel, ScanUnmoved, StreamInv
      <4> QED
        BY <2>3, <4>1
    <3>2. CASE r = s
      <4>1. phase[s] = "open" /\ phase'[s] = "failed" /\ plan' = plan
            /\ FaultsLeft' = FaultsLeft
        BY <2>7, <3>2 DEF Cancel, StreamInv, faults, FaultsLeft
      <4> QED
        BY <2>1, <4>1 DEF StreamLeft
    <3> QED
      BY <3>1, <3>2
  <2>8. CASE Crash
    <3>1. /\ crashes' = crashes + 1 /\ losses' = losses /\ plan' = plan /\ got' = got
          /\ wire' = [t \in Scans |-> Quiet]
          /\ phase'[s] = "failed" \/ phase'[s] = phase[s]
      BY <2>8 DEF Crash
    <3>2. /\ FaultsLeft' = FaultsLeft - 3
          /\ Remaining(plan[s], wire'[s], got'[s]) <= Remaining(plan[s], wire[s], got[s]) + 2
      BY <3>1, DeathShortens
    <3> QED
      BY <2>1, <3>1, <3>2 DEF StreamLeft
  <2>9. Good(s)
    BY <2>4, <2>5, <2>6, <2>7, <2>8 DEF StreamNext
  <2> QED
    BY <2>2, <2>9
<1>2. StreamSpec => [][StreamNext]_streamVars
  BY DEF StreamSpec
<1> QED
  BY <1>1, <1>2, StreamInvariance, PTL DEF ScansShorten

=============================================================================
