---------------------------- MODULE StdoutProofs ----------------------------
(***************************************************************************)
(* Proofs about Stdout, for every set of files, output, cluster size and   *)
(* number of free clusters: a redirected command's output is in its file,  *)
(* whole, in order and nowhere else, with the message in the place of each *)
(* piece there was no space for, however deep its system call nested.  It  *)
(* is until a write goes on with a cluster nobody has found (wild), when   *)
(* Stdout stops following it.                                              *)
(***************************************************************************)
EXTENDS Stdout, SequenceTheorems, TLAPS

Values == Pieces \cup Messages
Calls == [data : Values, step : {"write", "written"}]

HistoryOK ==
  /\ printed \in Seq(Values) /\ screen \in Seq(Values)
  /\ before \in [Names -> Seq(Values)]

(* The innermost system call has not written yet.                          *)
Pending == calls # <<>> /\ calls[Len(calls)].step = "write"

(* The pieces printed that have reached the file, as themselves or as the  *)
(* message.                                                                *)
Landed == IF Pending THEN Len(printed) - 1 ELSE Len(printed)

(* The contents c of the file once the first n of the pieces p have landed *)
(* behind what is kept; until then it is what it was before, b.            *)
Holds(c, kept, b, n, p) ==
  IF n = 0 THEN c = b
  ELSE /\ Len(c) = Len(kept) + n
       /\ \A i \in 1..Len(kept) : c[i] = kept[i]
       /\ \A i \in 1..n : c[Len(kept) + i] \in {p[i], NotEnough}

Kept == IF replace THEN <<>> ELSE before[target]

(* The screen shows what has been printed, less the piece being written.   *)
Shows(s, p) == s \in {p, <<NoSuchFile>> \o p}

ScreenInv ==
  mode = "screen" =>
    /\ calls = <<>> => Shows(screen, printed)
    /\ calls # <<>> => /\ Len(calls) = 1 /\ calls[1].step = "write"
                       /\ Shows(Append(screen, calls[1].data), printed)
    /\ \A f \in exists : content[f] = before[f]

(* Only the innermost of the nested calls can have its write before it;    *)
(* the first write of a command, and no other, finds the rewrite flag set. *)
FileInv ==
  mode = "file" =>
    /\ screen = <<>>
    /\ \A f \in exists \ {target} : content[f] = before[f]
    /\ \A i \in 1..(Len(calls) - 1) : calls[i].step = "written"
    /\ calls # <<>> => Len(printed) > 0
    /\ Pending => calls[Len(calls)].data \in {printed[Len(printed)], NotEnough}
    /\ calls = <<>> \/ Pending => (rewrite <=> replace /\ Landed = 0)
    /\ target \in exists => Holds(content[target], Kept, before[target], Landed, printed)

(* The count promises at least what there is: failed writes take clusters  *)
(* without counting them.                                                  *)
CountAhead == free <= count

StdoutInv ==
  /\ TypeOK /\ HistoryOK /\ CountAhead
  /\ running => ScreenInv /\ FileInv
  /\ ~running => mode = "screen" /\ calls = <<>> /\ todo = <<>>

-----------------------------------------------------------------------------
(* What a write does to the file it reaches.                               *)
LEMMA HoldsRewritten ==
  ASSUME NEW b, NEW p, NEW d \in {p[1], NotEnough}
  PROVE  Holds(<<d>>, <<>>, b, 1, p)
  <1>1. Len(<<d>>) = 1 /\ Len(<<>>) = 0 /\ <<d>>[1] = d
        OBVIOUS
  <1> QED BY <1>1 DEF Holds

LEMMA HoldsAppended ==
  ASSUME NEW c \in Seq(Values), NEW kept \in Seq(Values), NEW n \in Nat, NEW p, NEW b,
         Holds(c, kept, b, n, p), n = 0 => b = kept,
         NEW d \in Values, d \in {p[n + 1], NotEnough}
  PROVE  Holds(Append(c, d), kept, b, n + 1, p)
  <1>1. Len(c) = Len(kept) + n /\ Len(kept) \in Nat
        BY DEF Holds
  <1>2. \A i \in 1..Len(kept) : c[i] = kept[i]
        BY DEF Holds
  <1>3. \A i \in 1..n : c[Len(kept) + i] \in {p[i], NotEnough}
        BY DEF Holds
  <1> DEFINE a == Append(c, d)
             k == Len(kept)
  <1>4. Len(a) = Len(c) + 1 /\ a[Len(c) + 1] = d /\ \A i \in 1..Len(c) : a[i] = c[i]
        OBVIOUS
  <1>5. \A i \in 1..k : a[i] = kept[i]
        BY <1>1, <1>2, <1>4
  <1> HIDE DEF a, k
  <1>6. k \in Nat /\ Len(c) = k + n
        BY <1>1 DEF k
  <1>7. ASSUME NEW i \in 1..(n + 1) PROVE a[k + i] \in {p[i], NotEnough}
    <2>1. CASE i = n + 1
      <3>1. k + i = Len(c) + 1
            BY <2>1, <1>6
      <3> QED BY <2>1, <3>1, <1>4
    <2>2. CASE i # n + 1
      <3>1. i \in 1..n /\ k + i \in 1..Len(c)
            BY <2>2, <1>6
      <3> QED BY <3>1, <1>3, <1>4 DEF k
    <2> QED BY <2>1, <2>2
  <1>8. n + 1 # 0 /\ Len(a) = k + (n + 1)
        BY <1>4, <1>6
  <1> QED BY <1>5, <1>7, <1>8 DEF Holds, a, k

(* What has landed does not depend on what is printed next.                *)
LEMMA HoldsPrinted ==
  ASSUME NEW c, NEW kept, NEW n \in Nat, NEW p \in Seq(Values), NEW b,
         Holds(c, kept, b, n, p), n <= Len(p), NEW x
  PROVE  Holds(c, kept, b, n, Append(p, x))
  <1>1. \A i \in 1..n : Append(p, x)[i] = p[i]
        OBVIOUS
  <1> QED BY <1>1 DEF Holds

(* Once everything has landed the file has what RedirectedOutput says.     *)
LEMMA HoldsAll ==
  ASSUME NEW c \in Seq(Values), NEW kept \in Seq(Values), NEW p \in Seq(Values), NEW b,
         p # <<>>, Holds(c, kept, b, Len(p), p)
  PROVE  IsPrefix(kept, c) /\ Stands(SubSeq(c, Len(kept) + 1, Len(c)), p)
  <1> DEFINE k == Len(kept)
             m == Len(p)
             s == SubSeq(c, k + 1, Len(c))
  <1>0. m # 0 /\ m \in Nat /\ k \in Nat
        OBVIOUS
  <1>1. /\ Len(c) = k + m
        /\ \A i \in 1..k : c[i] = kept[i]
        /\ \A i \in 1..m : c[k + i] \in {p[i], NotEnough}
        BY <1>0 DEF Holds
  <1>2. SubSeq(kept, 1, k) = kept
        OBVIOUS
  <1>3. SubSeq(c, 1, k) = kept
    <2>1. Len(SubSeq(c, 1, k)) = k /\ \A i \in 1..k : SubSeq(c, 1, k)[i] = c[i]
          BY <1>0, <1>1
    <2>2. SubSeq(c, 1, k) \in Seq(Values)
          BY <1>0, <1>1
    <2> QED BY <2>1, <2>2, <1>1, SeqEqual
  <1>4. IsPrefix(kept, c)
        BY <1>0, <1>1, <1>2, <1>3 DEF IsPrefix
  <1>5. Len(s) = m /\ \A i \in 1..m : s[i] = c[k + i]
    <2>1. k + 1 \in 1..(Len(c) + 1) /\ Len(c) - (k + 1) + 1 = m
          BY <1>0, <1>1
    <2>2. Len(s) = m
          BY <2>1, <1>0, <1>1
    <2>3. ASSUME NEW i \in 1..m PROVE s[i] = c[k + i]
      <3>1. i + (k + 1) - 1 = k + i
            BY <1>0
      <3> QED BY <2>1, <2>2, <3>1, <1>0, <1>1
    <2> QED BY <2>2, <2>3
  <1> HIDE DEF s
  <1>6. \A i \in DOMAIN s : s[i] \in {p[i], NotEnough}
    <2>1. s \in Seq(Values)
          BY <1>0, <1>1 DEF s
    <2>2. DOMAIN s = 1..m
          BY <2>1, <1>5
    <2> QED BY <2>2, <1>5, <1>1
  <1> QED BY <1>4, <1>5, <1>6 DEF Stands, s, k, m

-----------------------------------------------------------------------------
LEMMA ClustersTyped ==
  ASSUME NEW n \in Nat
  PROVE  Clusters(n) \in Nat
  <1> DEFINE s == ClusterSize
  <1>1. s \in Nat /\ s > 0
        BY StdoutAssumption
  <1> HIDE DEF s
  <1>2. n + s - 1 \in Nat
        BY <1>1
  <1> DEFINE x == n + s - 1
  <1> HIDE DEF x
  <1>3. x \div s \in Nat
        BY <1>1, <1>2, Z3 DEF x
  <1> QED BY <1>3 DEF Clusters, s, x

LEMMA ValuesTyped ==
  /\ NotEnough \in Values /\ NoSuchFile \in Values /\ Pieces \subseteq Values
  /\ \A d \in Values : Size[d] \in Nat
  /\ Space \in Nat /\ Counted \in Nat /\ Space <= Counted /\ MaxCommands \in Nat
  BY StdoutAssumption DEF Values, Messages

LEMMA OutputsTyped == \A o \in Outputs : o \in Seq(Values)
  <1> SUFFICES ASSUME NEW o \in Outputs PROVE o \in Seq(Values)
      OBVIOUS
  <1>1. o \in Seq(Pieces)
        BY StdoutAssumption
  <1> QED BY <1>1, ValuesTyped

LEMMA InitStdoutInv == Init => StdoutInv
  <1> SUFFICES ASSUME Init PROVE StdoutInv
      OBVIOUS
  <1>1. <<>> \in Seq(Values) /\ <<>> \in Seq(Calls)
        OBVIOUS
  <1>2. TypeOK
    <2>1. content \in [Names -> Seq(Values)] /\ size \in [Names -> Nat]
          BY <1>1 DEF Init
    <2>2. calls \in Seq(Calls) /\ todo \in Seq(Values)
          BY <1>1 DEF Init
    <2>3. free \in Nat /\ count \in Nat /\ commands \in 0..MaxCommands /\ exists \subseteq Names
          BY ValuesTyped DEF Init
    <2>4. mode \in {"screen", "file"} /\ target \in Names /\ rewrite \in BOOLEAN
          BY DEF Init
    <2>5. running \in BOOLEAN /\ replace \in BOOLEAN /\ wild \in BOOLEAN
          BY DEF Init
    <2> QED BY <2>1, <2>2, <2>3, <2>4, <2>5 DEF TypeOK, Values, Calls
  <1>3. HistoryOK
        BY <1>1 DEF Init, HistoryOK
  <1>4. CountAhead
        BY ValuesTyped DEF Init, CountAhead
  <1> QED BY <1>2, <1>3, <1>4 DEF Init, StdoutInv

(* A command begins: nothing has been printed, and stdout is the screen or *)
(* the file the command is redirected to.                                  *)
LEMMA BeginTyped ==
  ASSUME StdoutInv, NEW r \in Redirections, NEW o \in Seq(Values), Begin(r, o)
  PROVE  /\ todo' \in Seq(Values) /\ HistoryOK' /\ calls' = calls /\ calls = <<>>
         /\ mode' \in {"screen", "file"} /\ target' \in Names /\ rewrite' \in BOOLEAN
         /\ running' = TRUE /\ replace' \in BOOLEAN /\ commands' \in 0..MaxCommands
         /\ wild' = wild /\ printed' = <<>> /\ before' = content
         /\ mode' = "screen" => Shows(screen', printed')
         /\ mode' = "file" => screen' = <<>> /\ rewrite' = replace'
  <1>1. /\ ~running /\ commands < MaxCommands /\ running' = TRUE
        /\ commands' = commands + 1 /\ Redirect(r) /\ todo' = o
        /\ printed' = <<>> /\ before' = content /\ calls' = calls /\ wild' = wild
        BY DEF Begin
  <1>2. calls = <<>> /\ mode = "screen"
        BY <1>1 DEF StdoutInv
  <1>3. commands' \in 0..MaxCommands
        BY <1>1, ValuesTyped DEF StdoutInv, TypeOK
  <1>4. before' \in [Names -> Seq(Values)] /\ printed' \in Seq(Values)
        BY <1>1 DEF StdoutInv, TypeOK, Values
  <1>5. <<>> \in Seq(Values) /\ <<NoSuchFile>> \in Seq(Values)
        BY ValuesTyped
  <1>6. Shows(<<>>, <<>>) /\ Shows(<<NoSuchFile>>, <<>>)
    <2>1. <<NoSuchFile>> = <<NoSuchFile>> \o <<>>
          BY ValuesTyped
    <2> QED BY <2>1 DEF Shows
  <1>7. mode \in {"screen", "file"} /\ target \in Names /\ rewrite \in BOOLEAN
        BY DEF StdoutInv, TypeOK
  <1>8. CASE r = Plain
    <2>1. screen' = <<>> /\ replace' = FALSE /\ UNCHANGED stdout
          BY <1>1, <1>8 DEF Redirect
    <2>2. mode' = mode /\ target' = target /\ rewrite' = rewrite
          BY <2>1 DEF stdout
    <2> QED BY <1>1, <1>2, <1>3, <1>4, <1>5, <1>6, <1>7, <2>1, <2>2 DEF HistoryOK
  <1>9. CASE r # Plain /\ r[1] \in exists
    <2>1. /\ mode' = "file" /\ target' = r[1] /\ rewrite' = (r[2] = ">")
          /\ screen' = <<>> /\ replace' = (r[2] = ">")
          BY <1>1, <1>9 DEF Redirect
    <2>2. target' \in Names
          BY <2>1, <1>9 DEF StdoutInv, TypeOK
    <2>3. rewrite' \in BOOLEAN /\ rewrite' = replace'
          BY <2>1, Zenon
    <2> QED BY <1>1, <1>2, <1>3, <1>4, <1>5, <2>1, <2>2, <2>3 DEF HistoryOK
  <1>10. CASE r # Plain /\ r[1] \notin exists
    <2>1. screen' = <<NoSuchFile>> /\ replace' = FALSE /\ UNCHANGED stdout
          BY <1>1, <1>10 DEF Redirect
    <2>2. mode' = mode /\ target' = target /\ rewrite' = rewrite
          BY <2>1 DEF stdout
    <2> QED BY <1>1, <1>2, <1>3, <1>4, <1>5, <1>6, <1>7, <2>1, <2>2 DEF HistoryOK
  <1> QED BY <1>8, <1>9, <1>10

(* A command that leaves the files that remain as they are.                *)
LEMMA BeginStdoutInv ==
  ASSUME StdoutInv, NEW r \in Redirections, NEW o \in Seq(Values), Begin(r, o),
         exists' \subseteq Names, content' \in [Names -> Seq(Values)],
         size' \in [Names -> Nat], free' \in Nat, count' \in Nat, free' <= count',
         \A f \in exists' : content'[f] = content[f]
  PROVE  StdoutInv'
  <1>1. /\ todo' \in Seq(Values) /\ HistoryOK' /\ calls' = calls /\ calls = <<>>
        /\ mode' \in {"screen", "file"} /\ target' \in Names /\ rewrite' \in BOOLEAN
        /\ running' = TRUE /\ replace' \in BOOLEAN /\ commands' \in 0..MaxCommands
        /\ wild' \in BOOLEAN /\ CountAhead'
        BY BeginTyped DEF StdoutInv, TypeOK, CountAhead
  <1>2. /\ printed' = <<>> /\ before' = content
        /\ mode' = "screen" => Shows(screen', printed')
        /\ mode' = "file" => screen' = <<>> /\ rewrite' = replace'
        BY BeginTyped
  <1>3. calls' \in Seq(Calls) /\ calls' = <<>> /\ Len(calls') = 0
        BY <1>1 DEF StdoutInv, TypeOK, Calls, Values
  <1>4. TypeOK'
        BY <1>1, <1>3 DEF TypeOK, Values, Calls
  <1>5. ScreenInv'
        BY <1>2, <1>3 DEF ScreenInv
  <1>6. FileInv'
    <2>1. Len(printed') = 0
          BY <1>2
    <2>2. ~Pending' /\ Landed' = 0
          BY <1>3, <2>1 DEF Pending, Landed
    <2>3. target' \in exists' => content'[target'] = before'[target']
          BY <1>2
    <2>4. Holds(content'[target'], Kept', before'[target'], Landed', printed')
            <=> content'[target'] = before'[target']
          BY <2>2 DEF Holds
    <2>5. \A i \in 1..(Len(calls') - 1) : calls'[i].step = "written"
          BY <1>3
    <2> HIDE DEF Pending, Landed
    <2>6. mode' = "file" => (rewrite' <=> replace' /\ Landed' = 0)
          BY <1>2, <2>2
    <2> QED BY <1>2, <1>3, <2>2, <2>3, <2>4, <2>5, <2>6 DEF FileInv
  <1> QED BY <1>1, <1>4, <1>5, <1>6 DEF StdoutInv

LEMMA CommandStdoutInv ==
  ASSUME StdoutInv, NEW r \in Redirections, NEW f \in Names,
         (\E o \in Outputs : Output(r, o)) \/ Cat(r, f) \/ Create(f) \/ Delete(r, f)
  PROVE  StdoutInv'
  <1>0. /\ exists \subseteq Names /\ content \in [Names -> Seq(Values)]
        /\ size \in [Names -> Nat] /\ free \in Nat /\ count \in Nat /\ free <= count
        BY DEF StdoutInv, TypeOK, Values, CountAhead
  <1>1. Plain \in Redirections /\ <<>> \in Seq(Values)
        BY DEF Redirections
  <1>2. ASSUME NEW o \in Outputs, Output(r, o) PROVE StdoutInv'
    <2>1. Begin(r, o) /\ UNCHANGED <<exists, content, size, free, count>>
          BY <1>2 DEF Output, files
    <2>2. o \in Seq(Values)
          BY OutputsTyped
    <2> QED BY <1>0, <2>1, <2>2, BeginStdoutInv
  <1>3. CASE Cat(r, f)
    <2>1. Begin(r, content[f]) /\ UNCHANGED <<exists, content, size, free, count>>
          BY <1>3 DEF Cat, files
    <2>2. content[f] \in Seq(Values)
          BY <1>0
    <2> QED BY <1>0, <2>1, <2>2, BeginStdoutInv
  <1>4. CASE Create(f)
    <2>1. /\ Begin(Plain, <<>>) /\ exists' = exists \cup {f}
          /\ content' = content /\ size' = size /\ free' = free /\ count' = count
          BY <1>4 DEF Create
    <2>2. exists' \subseteq Names
          BY <1>0, <2>1
    <2> QED BY <1>0, <1>1, <2>1, <2>2, BeginStdoutInv
  <1>5. CASE Delete(r, f)
    <2>1. /\ Begin(r, <<>>) /\ exists' = exists \ {f}
          /\ content' = [content EXCEPT ![f] = <<>>] /\ size' = [size EXCEPT ![f] = 0]
          /\ free' = free + Clusters(size[f]) /\ count' = count + Clusters(size[f])
          BY <1>5 DEF Delete
    <2>2. /\ exists' \subseteq Names /\ content' \in [Names -> Seq(Values)]
          /\ size' \in [Names -> Nat]
          BY <1>0, <1>1, <2>1
    <2>3. size[f] \in Nat
          BY <1>0
    <2>4. Clusters(size[f]) \in Nat
          BY <2>3, ClustersTyped
    <2>5. free' \in Nat /\ count' \in Nat /\ free' <= count'
          BY <1>0, <2>1, <2>4
    <2>6. \A g \in exists' : content'[g] = content[g]
          BY <1>0, <2>1
    <2> QED BY <1>1, <2>1, <2>2, <2>5, <2>6, BeginStdoutInv
  <1> QED BY <1>2, <1>3, <1>4, <1>5

-----------------------------------------------------------------------------
(* The command hands its next piece to print.                              *)
LEMMA EmitStdoutInv ==
  ASSUME StdoutInv, Emit
  PROVE  StdoutInv'
  <1> DEFINE d == todo[1]
             e == [data |-> d, step |-> "write"]
  <1>1. /\ calls = <<>> /\ todo # <<>> /\ calls' = <<e>> /\ todo' = Tail(todo)
        /\ printed' = Append(printed, d)
        BY DEF Emit
  <1>2. UNCHANGED <<exists, content, size, free, count, mode, target, rewrite, running,
                    screen, before, replace, commands, wild>>
        BY DEF Emit, files, stdout
  <1>3. todo \in Seq(Values) /\ printed \in Seq(Values) /\ screen \in Seq(Values)
        BY DEF StdoutInv, TypeOK, HistoryOK, Values
  <1>4. d \in Values /\ todo' \in Seq(Values) /\ running
        BY <1>1, <1>3 DEF StdoutInv
  <1>5. e \in Calls /\ calls' \in Seq(Calls)
        BY <1>1, <1>4 DEF Calls
  <1>6. /\ Len(calls') = 1 /\ calls'[1] = e /\ calls' # <<>>
        /\ e.data = d /\ e.step = "write"
        BY <1>1
  <1> HIDE DEF e, d
  <1>7. /\ printed' \in Seq(Values) /\ Len(printed') = Len(printed) + 1
        /\ printed'[Len(printed')] = d /\ Len(printed) \in Nat
        BY <1>1, <1>3, <1>4
  <1>8. TypeOK'
        BY <1>2, <1>4, <1>5 DEF StdoutInv, TypeOK, Values, Calls
  <1>9. HistoryOK'
        BY <1>2, <1>7 DEF StdoutInv, HistoryOK
  <1>10. ScreenInv'
    <2>1. Shows(screen, printed) => Shows(Append(screen, d), printed')
      <3>1. <<NoSuchFile>> \o printed' = Append(<<NoSuchFile>> \o printed, d)
        <4>1. <<NoSuchFile>> \in Seq(Values)
              BY ValuesTyped
        <4> QED BY <4>1, <1>1, <1>3, <1>4
      <3> QED BY <3>1, <1>1 DEF Shows
    <2> QED BY <1>1, <1>2, <1>4, <1>6, <2>1 DEF StdoutInv, ScreenInv
  <1>11. FileInv'
    <2>1. ~Pending /\ Landed = Len(printed)
          BY <1>1 DEF Pending, Landed
    <2>2. Pending' /\ Landed' = Len(printed)
          BY <1>6, <1>7 DEF Pending, Landed
    <2>3. Kept' = Kept
          BY <1>2 DEF Kept
    <2>4. ASSUME mode = "file", target \in exists
          PROVE  Holds(content[target], Kept, before[target], Landed', printed')
      <3>1. Holds(content[target], Kept, before[target], Len(printed), printed)
            BY <1>4, <2>1, <2>4 DEF StdoutInv, FileInv
      <3> HIDE DEF Kept
      <3>2. Len(printed) \in Nat /\ Len(printed) <= Len(printed)
            BY <1>7
      <3> QED BY <1>1, <1>3, <2>2, <3>1, <3>2, HoldsPrinted
    <2>5. \A i \in 1..(Len(calls') - 1) : calls'[i].step = "written"
          BY <1>6
    <2>6. calls'[Len(calls')].data \in {printed'[Len(printed')], NotEnough}
          BY <1>6, <1>7
    <2>7. mode = "file" => (rewrite <=> replace /\ Landed = 0)
          BY <1>1, <1>4 DEF StdoutInv, FileInv
    <2>8. mode' = "file" => (rewrite' <=> replace' /\ Landed' = 0)
          BY <1>2, <2>1, <2>2, <2>7
    <2>9. Len(printed') > 0
          BY <1>7
    <2>10. mode = "file" => screen = <<>> /\ \A f \in exists \ {target} : content[f] = before[f]
          BY <1>4 DEF StdoutInv, FileInv
    <2> HIDE DEF Pending, Landed, Kept
    <2> QED BY <1>2, <2>3, <2>4, <2>5, <2>6, <2>8, <2>9, <2>10 DEF FileInv
  <1>12. CountAhead'
        BY <1>2 DEF StdoutInv, CountAhead
  <1> QED BY <1>2, <1>4, <1>8, <1>9, <1>10, <1>11, <1>12 DEF StdoutInv

-----------------------------------------------------------------------------
(* The innermost call, and the calls around it.                            *)
LEMMA CallsShape ==
  ASSUME NEW s \in Seq(Calls), s # <<>>
  PROVE  /\ Len(s) \in Nat /\ Len(s) > 0
         /\ Last(s) = s[Len(s)] /\ Last(s) \in Calls
         /\ Last(s).data \in Values /\ Last(s).step \in {"write", "written"}
         /\ Front(s) \in Seq(Calls) /\ Len(Front(s)) = Len(s) - 1
         /\ \A i \in 1..(Len(s) - 1) : Front(s)[i] = s[i]
  <1>1. Len(s) \in Nat /\ Len(s) > 0
        OBVIOUS
  <1>2. s[Len(s)] \in Calls
        BY <1>1
  <1>3. \A e \in Calls : e.data \in Values /\ e.step \in {"write", "written"}
        BY DEF Calls
  <1>4. Front(s) \in Seq(Calls) /\ Len(Front(s)) = Len(s) - 1
    <2> DEFINE m == Len(s) - 1
    <2>1. m \in Nat /\ m <= Len(s)
          BY <1>1
    <2>2. \A i \in 1..m : s[i] \in Calls
          BY <1>1
    <2> HIDE DEF m
    <2>3. SubSeq(s, 1, m) \in Seq(Calls) /\ Len(SubSeq(s, 1, m)) = m
          BY <2>1, <2>2, SubSeqProperties
    <2> QED BY <2>3 DEF Front, m
  <1>5. \A i \in 1..(Len(s) - 1) : Front(s)[i] = s[i]
        BY <1>1 DEF Front
  <1> QED BY <1>1, <1>2, <1>3, <1>4, <1>5 DEF Last

(* Marking the innermost call as written.                                  *)
LEMMA CallWritten ==
  ASSUME NEW s \in Seq(Calls), s # <<>>
  PROVE  LET t == [s EXCEPT ![Len(s)].step = "written"]
         IN /\ t \in Seq(Calls) /\ Len(t) = Len(s)
            /\ t[Len(s)].step = "written"
            /\ \A i \in 1..(Len(s) - 1) : t[i] = s[i]
  <1> DEFINE n == Len(s)
             e == [s[n] EXCEPT !.step = "written"]
             t == [s EXCEPT ![n] = e]
  <1>1. n \in Nat /\ n > 0 /\ s[n] \in Calls
        OBVIOUS
  <1>2. e \in Calls /\ e.step = "written"
        BY <1>1 DEF Calls
  <1> HIDE DEF e
  <1>3. /\ t \in Seq(Calls) /\ Len(t) = n /\ t[n] = e
        /\ \A i \in 1..(n - 1) : t[i] = s[i]
        BY <1>1, <1>2
  <1>4. t = [s EXCEPT ![Len(s)].step = "written"]
        BY DEF e
  <1> HIDE DEF t
  <1> QED BY <1>2, <1>3, <1>4

LEMMA SysWriteKeeps ==
  ASSUME StdoutInv, SysWrite
  PROVE  /\ UNCHANGED <<running, todo, printed, before, replace, commands>>
         /\ \/ SysWriteScreen \/ SysWriteFile \/ SysWriteNoSpace \/ SysWriteWild
            \/ SysWriteReturn
         /\ calls # <<>> /\ running /\ calls \in Seq(Calls)
  <1>1. calls # <<>>
        BY DEF SysWrite, SysWriteScreen, SysWriteFile, SysWriteNoSpace, SysWriteWild,
               SysWriteReturn, Innermost
  <1>2. calls \in Seq(Calls)
        BY DEF StdoutInv, TypeOK, Calls, Values
  <1> QED BY <1>1, <1>2 DEF SysWrite, StdoutInv

(* A write to the screen.                                                  *)
LEMMA ScreenStdoutInv ==
  ASSUME StdoutInv, SysWrite, SysWriteScreen
  PROVE  StdoutInv'
  <1>1. /\ UNCHANGED <<running, todo, printed, before, replace, commands>>
        /\ calls # <<>> /\ running /\ calls \in Seq(Calls)
        BY SysWriteKeeps
  <1>2. /\ mode = "screen" /\ screen' = Append(screen, Last(calls).data)
        /\ calls' = Front(calls)
        /\ UNCHANGED <<exists, content, size, free, count, mode, target, rewrite, wild>>
        BY DEF SysWriteScreen, files, stdout
  <1>3. /\ Len(calls) = 1 /\ Shows(Append(screen, calls[1].data), printed)
        /\ \A f \in exists : content[f] = before[f]
        BY <1>1, <1>2 DEF StdoutInv, ScreenInv
  <1>4. Last(calls) = calls[1] /\ Last(calls).data \in Values /\ Front(calls) \in Seq(Calls)
        BY <1>1, <1>3, CallsShape
  <1>5. calls' = <<>>
    <2>1. Len(Front(calls)) = 0
          BY <1>1, <1>3, CallsShape
    <2> QED BY <2>1, <1>2, <1>4
  <1>6. screen' \in Seq(Values)
        BY <1>2, <1>4 DEF StdoutInv, HistoryOK
  <1>7. TypeOK'
        BY <1>1, <1>2, <1>4 DEF StdoutInv, TypeOK, Values, Calls
  <1>8. HistoryOK'
        BY <1>1, <1>6 DEF StdoutInv, HistoryOK
  <1>9. ScreenInv'
        BY <1>1, <1>2, <1>3, <1>4, <1>5 DEF ScreenInv
  <1>10. FileInv'
        BY <1>2 DEF FileInv
  <1>11. CountAhead'
        BY <1>2 DEF StdoutInv, CountAhead
  <1> QED BY <1>1, <1>7, <1>8, <1>9, <1>10, <1>11 DEF StdoutInv

(* A write to the file that has the space.                                 *)
LEMMA FileStdoutInv ==
  ASSUME StdoutInv, SysWrite, SysWriteFile
  PROVE  StdoutInv'
  <1> DEFINE d == Last(calls).data
             n == Len(calls)
             c == Rewritten(content[target], d)
             s == NewSize(d)
             more == Needs(target, s)
             t == [calls EXCEPT ![n].step = "written"]
  <1>1. /\ UNCHANGED <<running, todo, printed, before, replace, commands>>
        /\ calls # <<>> /\ running /\ calls \in Seq(Calls)
        BY SysWriteKeeps
  <1>2. /\ Innermost("write") /\ mode = "file" /\ target \in exists /\ more <= free
        /\ content' = [content EXCEPT ![target] = c]
        /\ size' = [size EXCEPT ![target] = s]
        /\ free' = free - more /\ count' = count - more
        /\ calls' = t /\ UNCHANGED <<exists, mode, target, rewrite, screen, wild>>
        BY DEF SysWriteFile, stdout
  <1>3. /\ n \in Nat /\ n > 0 /\ Last(calls) = calls[n] /\ d \in Values
        BY <1>1, CallsShape
  <1>4. /\ t \in Seq(Calls) /\ Len(t) = n /\ t[n].step = "written"
        /\ \A i \in 1..(n - 1) : t[i] = calls[i]
        BY <1>1, CallWritten
  <1> HIDE DEF t
  <1>5. /\ content \in [Names -> Seq(Values)] /\ size \in [Names -> Nat] /\ free \in Nat
        /\ target \in Names /\ count \in Nat /\ free <= count
        BY DEF StdoutInv, TypeOK, Values, CountAhead
  <1>6. calls[n].step = "write" /\ Pending
        BY <1>1, <1>2, <1>3 DEF Innermost, Pending
  <1>7. s \in Nat
        BY <1>3, <1>5, ValuesTyped DEF NewSize
  <1>8. c \in Seq(Values)
        BY <1>3, <1>5 DEF Rewritten
  <1>9. more \in Int
    <2>1. Clusters(s) \in Nat
          BY <1>7, ClustersTyped
    <2>2. size[target] \in Nat
          BY <1>5
    <2>3. Clusters(size[target]) \in Nat
          BY <2>2, ClustersTyped
    <2> QED BY <2>1, <2>3 DEF Needs
  <1> HIDE DEF more, s, c
  <1>10. content' \in [Names -> Seq(Values)] /\ size' \in [Names -> Nat]
         /\ free' \in Nat /\ count' \in Nat /\ free' <= count'
        BY <1>2, <1>5, <1>7, <1>8, <1>9
  <1>11. TypeOK'
        BY <1>1, <1>2, <1>4, <1>10 DEF StdoutInv, TypeOK, Values, Calls
  <1>12. HistoryOK'
        BY <1>1, <1>2 DEF StdoutInv, HistoryOK
  <1>13. FileInv /\ printed \in Seq(Values) /\ before \in [Names -> Seq(Values)]
         /\ replace \in BOOLEAN
        BY <1>1 DEF StdoutInv, HistoryOK, TypeOK
  <1>14. /\ Len(printed) > 0 /\ Len(printed) \in Nat /\ Landed = Len(printed) - 1
         /\ d \in {printed[Len(printed)], NotEnough}
         /\ rewrite <=> replace /\ Landed = 0
         /\ Holds(content[target], Kept, before[target], Landed, printed)
        BY <1>1, <1>2, <1>3, <1>6, <1>13 DEF FileInv, Landed
  <1>15. ~Pending' /\ Landed' = Len(printed) /\ calls' # <<>> /\ Len(calls') = n
        BY <1>1, <1>2, <1>3, <1>4 DEF Pending, Landed
  <1>16. Kept' = Kept /\ Kept \in Seq(Values)
        BY <1>1, <1>2, <1>5, <1>13 DEF Kept
  <1>17. Holds(c, Kept, before[target], Len(printed), printed)
    <2>1. CASE rewrite
      <3>1. Len(printed) = 1 /\ Kept = <<>> /\ c = <<d>>
            BY <2>1, <1>14 DEF Kept, c, Rewritten
      <3> QED BY <3>1, <1>14, HoldsRewritten
    <2>2. CASE ~rewrite
      <3>1. c = Append(content[target], d)
            BY <2>2 DEF c, Rewritten
      <3>2. Landed = 0 => before[target] = Kept
            BY <2>2, <1>14 DEF Kept
      <3>3. Landed \in Nat /\ Landed + 1 = Len(printed)
            BY <1>14
      <3>4. content[target] \in Seq(Values)
            BY <1>5
      <3>5. d \in {printed[Landed + 1], NotEnough}
            BY <3>3, <1>14
      <3> HIDE DEF Landed, Kept, d
      <3>6. Holds(Append(content[target], d), Kept, before[target], Landed + 1, printed)
            BY <3>2, <3>3, <3>4, <3>5, <1>3, <1>14, <1>16, HoldsAppended
      <3> QED BY <3>1, <3>3, <3>6
    <2> QED BY <2>1, <2>2
  <1>18. FileInv'
    <2>1. content'[target'] = c /\ before'[target'] = before[target]
          BY <1>1, <1>2, <1>5
    <2>2. \A f \in exists' \ {target'} : content'[f] = before'[f]
          BY <1>1, <1>2, <1>5, <1>13 DEF FileInv, StdoutInv, TypeOK
    <2>3. \A i \in 1..(Len(calls') - 1) : calls'[i].step = "written"
          BY <1>2, <1>4, <1>13 DEF FileInv
    <2>4. screen' = <<>> /\ Len(printed') > 0
          BY <1>1, <1>2, <1>13, <1>14 DEF FileInv
    <2>5. Holds(content'[target'], Kept', before'[target'], Landed', printed')
          BY <1>1, <1>15, <1>16, <1>17, <2>1
    <2> HIDE DEF Pending, Landed, Kept
    <2> QED BY <1>15, <2>2, <2>3, <2>4, <2>5 DEF FileInv
  <1>19. ScreenInv'
        BY <1>2 DEF ScreenInv
  <1>20. CountAhead'
        BY <1>10 DEF CountAhead
  <1> QED BY <1>1, <1>11, <1>12, <1>18, <1>19, <1>20 DEF StdoutInv

(* A write to the file that has not the space: the message goes where the  *)
(* output goes, in a system call of its own.                               *)
LEMMA NoSpaceStdoutInv ==
  ASSUME StdoutInv, SysWrite, SysWriteNoSpace
  PROVE  StdoutInv'
  <1> DEFINE n == Len(calls)
             t == [calls EXCEPT ![n].step = "written"]
             e == [data |-> NotEnough, step |-> "write"]
             first == FirstOf(target, Needs(target, NewSize(Last(calls).data)))
  <1>1. /\ UNCHANGED <<running, todo, printed, before, replace, commands>>
        /\ calls # <<>> /\ running /\ calls \in Seq(Calls)
        BY SysWriteKeeps
  <1>2. /\ Innermost("write") /\ mode = "file"
        /\ first \in {0, 1} /\ first <= free /\ free' = free - first
        /\ calls' = Append(t, e)
        /\ UNCHANGED <<exists, content, size, count, mode, target, rewrite, screen, wild>>
        BY DEF SysWriteNoSpace, stdout, FirstOf, Finds
  <1>3. n \in Nat /\ n > 0 /\ Last(calls) = calls[n]
        BY <1>1, CallsShape
  <1>4. /\ t \in Seq(Calls) /\ Len(t) = n /\ t[n].step = "written"
        /\ \A i \in 1..(n - 1) : t[i] = calls[i]
        BY <1>1, CallWritten
  <1>5. e \in Calls /\ e.data = NotEnough /\ e.step = "write"
        BY ValuesTyped DEF Calls
  <1>6. calls[n].step = "write" /\ Pending
        BY <1>1, <1>2, <1>3 DEF Innermost, Pending
  <1> HIDE DEF t, e
  <1>7. /\ calls' \in Seq(Calls) /\ calls' # <<>> /\ Len(calls') = n + 1
        /\ calls'[n + 1] = e /\ \A i \in 1..n : calls'[i] = t[i]
        BY <1>2, <1>3, <1>4, <1>5
  <1> HIDE DEF first
  <1>8. free' \in Nat /\ free' <= count' /\ count' \in Nat
        BY <1>2 DEF StdoutInv, TypeOK, CountAhead
  <1>9. TypeOK'
        BY <1>1, <1>2, <1>7, <1>8 DEF StdoutInv, TypeOK, Values, Calls
  <1>10. HistoryOK'
        BY <1>1, <1>2 DEF StdoutInv, HistoryOK
  <1>11. FileInv
        BY <1>1 DEF StdoutInv
  <1>12. Pending' /\ Landed = Len(printed) - 1 /\ Landed' = Landed
        BY <1>1, <1>5, <1>6, <1>7 DEF Pending, Landed
  <1>13. Kept' = Kept
        BY <1>1, <1>2 DEF Kept
  <1>14. FileInv'
    <2>1. ASSUME NEW i \in 1..(Len(calls') - 1) PROVE calls'[i].step = "written"
      <3>1. i \in 1..n /\ (i = n \/ i \in 1..(n - 1))
            BY <1>3, <1>7
      <3> QED BY <3>1, <1>2, <1>4, <1>7, <1>11 DEF FileInv
    <2>2. calls'[Len(calls')].data = NotEnough
          BY <1>5, <1>7
    <2> HIDE DEF Kept, Landed
    <2>3. /\ screen' = <<>> /\ \A f \in exists' \ {target'} : content'[f] = before'[f]
          /\ Len(printed') > 0 /\ (rewrite' <=> replace' /\ Landed' = 0)
          BY <1>1, <1>2, <1>6, <1>11, <1>12 DEF FileInv
    <2>4. target' \in exists' => Holds(content'[target'], Kept', before'[target'], Landed', printed')
          BY <1>1, <1>2, <1>11, <1>12, <1>13 DEF FileInv
    <2> HIDE DEF Pending
    <2> QED BY <2>1, <2>2, <2>3, <2>4 DEF FileInv
  <1>15. ScreenInv'
        BY <1>2 DEF ScreenInv
  <1>16. CountAhead'
        BY <1>8 DEF CountAhead
  <1> QED BY <1>1, <1>9, <1>10, <1>14, <1>15, <1>16 DEF StdoutInv

(* A write that goes wild is not followed.                                 *)
LEMMA WildStdoutInv ==
  ASSUME StdoutInv, SysWrite, SysWriteWild
  PROVE  StdoutInv'
  <1>1. /\ UNCHANGED <<running, todo, printed, before, replace, commands>>
        /\ UNCHANGED <<exists, content, size, free, count, mode, target, rewrite, calls, screen>>
        /\ wild' = TRUE /\ running
        BY SysWriteKeeps DEF SysWriteWild, files, stdout
  <1> QED BY <1>1 DEF StdoutInv, TypeOK, HistoryOK, CountAhead, ScreenInv, FileInv, Pending,
                      Landed, Kept

(* The innermost call returns; whatever was written, the next write of the *)
(* command appends.                                                        *)
LEMMA ReturnStdoutInv ==
  ASSUME StdoutInv, SysWrite, SysWriteReturn
  PROVE  StdoutInv'
  <1> DEFINE n == Len(calls)
             t == Front(calls)
  <1>1. /\ UNCHANGED <<running, todo, printed, before, replace, commands>>
        /\ calls # <<>> /\ running /\ calls \in Seq(Calls)
        BY SysWriteKeeps
  <1>2. /\ Innermost("written") /\ rewrite' = FALSE /\ calls' = t
        /\ UNCHANGED <<exists, content, size, free, count, mode, target, screen, wild>>
        BY DEF SysWriteReturn, RewriteFlagAfter, files
  <1>3. /\ n \in Nat /\ n > 0 /\ Last(calls) = calls[n]
        /\ t \in Seq(Calls) /\ Len(t) = n - 1
        /\ \A i \in 1..(n - 1) : t[i] = calls[i]
        BY <1>1, CallsShape
  <1> HIDE DEF t
  <1>4. calls[n].step = "written" /\ ~Pending
        BY <1>1, <1>2, <1>3 DEF Innermost, Pending
  <1>5. TypeOK'
        BY <1>1, <1>2, <1>3 DEF StdoutInv, TypeOK, Values, Calls
  <1>6. HistoryOK'
        BY <1>1, <1>2 DEF StdoutInv, HistoryOK
  <1>7. mode = "file" /\ FileInv
    <2>1. mode # "screen"
          BY <1>1, <1>3, <1>4 DEF StdoutInv, ScreenInv
    <2> QED BY <2>1, <1>1 DEF StdoutInv, TypeOK
  <1>8. \A i \in 1..(n - 1) : calls'[i].step = "written"
        BY <1>2, <1>3, <1>7 DEF FileInv
  <1>9. ~Pending'
    <2>1. CASE calls' = <<>>
          BY <2>1 DEF Pending
    <2>2. CASE calls' # <<>>
      <3>1. Len(calls') \in 1..(n - 1)
            BY <2>2, <1>2, <1>3
      <3>2. calls'[Len(calls')].step = "written"
            BY <3>1, <1>8
      <3> QED BY <3>2 DEF Pending
    <2> QED BY <2>1, <2>2
  <1>10. Landed = Len(printed) /\ Landed' = Landed /\ Len(printed) > 0
        BY <1>1, <1>4, <1>7, <1>9 DEF Landed, FileInv
  <1>11. Kept' = Kept
        BY <1>1, <1>2 DEF Kept
  <1>12. FileInv'
    <2>1. \A i \in 1..(Len(calls') - 1) : calls'[i].step = "written"
          BY <1>2, <1>3, <1>8
    <2> HIDE DEF Kept, Landed
    <2>2. ~(rewrite' \/ Landed' = 0)
          BY <1>2, <1>10
    <2>3. target' \in exists' => Holds(content'[target'], Kept', before'[target'], Landed', printed')
          BY <1>1, <1>2, <1>7, <1>10, <1>11 DEF FileInv
    <2>4. /\ screen' = <<>> /\ \A f \in exists' \ {target'} : content'[f] = before'[f]
          /\ Len(printed') > 0
          BY <1>1, <1>2, <1>7, <1>10 DEF FileInv
    <2> HIDE DEF Pending
    <2> QED BY <1>9, <2>1, <2>2, <2>3, <2>4 DEF FileInv
  <1>13. ScreenInv'
        BY <1>2, <1>7 DEF ScreenInv
  <1>14. CountAhead'
        BY <1>2 DEF StdoutInv, CountAhead
  <1> QED BY <1>1, <1>5, <1>6, <1>12, <1>13, <1>14 DEF StdoutInv

(* The command is over, and stdout is the screen again.                    *)
LEMMA FinishStdoutInv ==
  ASSUME StdoutInv, Finish
  PROVE  StdoutInv'
  <1>1. /\ todo = <<>> /\ calls = <<>> /\ running' = FALSE /\ mode' = "screen"
        /\ UNCHANGED <<exists, content, size, free, count, target, rewrite, calls, todo, screen,
                       printed, before, replace, commands, wild>>
        BY DEF Finish, ModeAfterCommand, files
  <1>2. TypeOK'
        BY <1>1 DEF StdoutInv, TypeOK
  <1>3. HistoryOK'
        BY <1>1 DEF StdoutInv, HistoryOK
  <1>4. CountAhead'
        BY <1>1 DEF StdoutInv, CountAhead
  <1> QED BY <1>1, <1>2, <1>3, <1>4 DEF StdoutInv

LEMMA StdoutInvStep == StdoutInv /\ [Next]_vars => StdoutInv'
  <1> SUFFICES ASSUME StdoutInv, [Next]_vars PROVE StdoutInv'
      OBVIOUS
  <1>1. CASE SysWrite
    <2>1. \/ SysWriteScreen \/ SysWriteFile \/ SysWriteNoSpace \/ SysWriteWild
          \/ SysWriteReturn
          BY <1>1 DEF SysWrite
    <2> QED BY <1>1, <2>1, ScreenStdoutInv, FileStdoutInv, NoSpaceStdoutInv, WildStdoutInv,
               ReturnStdoutInv
  <1>2. CASE Emit
        BY <1>2, EmitStdoutInv
  <1>3. CASE Finish
        BY <1>3, FinishStdoutInv
  <1>4. ASSUME NEW r \in Redirections, NEW o \in Outputs, Output(r, o) PROVE StdoutInv'
    <2>1. target \in Names
          BY DEF StdoutInv, TypeOK
    <2> QED BY <1>4, <2>1, CommandStdoutInv
  <1>5. ASSUME NEW r \in Redirections, NEW f \in Names, Cat(r, f) \/ Delete(r, f)
        PROVE  StdoutInv'
        BY <1>5, CommandStdoutInv
  <1>6. ASSUME NEW f \in Names, Create(f) PROVE StdoutInv'
    <2>1. Plain \in Redirections
          BY DEF Redirections
    <2> QED BY <1>6, <2>1, CommandStdoutInv
  <1>7. CASE UNCHANGED vars
    <2>1. UNCHANGED <<exists, content, size, free, count, mode, target, rewrite, calls,
                      running, todo, screen, printed, before, replace, commands, wild>>
          BY <1>7 DEF vars, files, stdout
    <2> QED BY <2>1 DEF StdoutInv, TypeOK, HistoryOK, CountAhead, ScreenInv, FileInv, Pending,
                      Landed, Kept
  <1> QED BY <1>1, <1>2, <1>3, <1>4, <1>5, <1>6, <1>7 DEF Next

LEMMA StdoutInvHolds == Spec => []StdoutInv
  <1> QED BY InitStdoutInv, StdoutInvStep, PTL DEF Spec

-----------------------------------------------------------------------------
(* Neither count of free clusters ever goes below zero, and every          *)
(* system call in progress is a print of something the shell prints.       *)
THEOREM StdoutTypeCorrect == Spec => []TypeOK
  <1>1. StdoutInv => TypeOK
        BY DEF StdoutInv
  <1> QED BY <1>1, StdoutInvHolds, PTL

(* sys_write rewrites the file with the first piece of a command started   *)
(* with ">" and appends the others: when the command is over the file has  *)
(* the whole output, or the message where a piece had no space, behind     *)
(* what ">>" keeps.  No command ends once a write has gone wild.           *)
THEOREM StdoutRedirectedOutput == Spec => []RedirectedOutput
  <1>1. ASSUME StdoutInv PROVE RedirectedOutput
    <2> SUFFICES ASSUME Done, mode = "file", target \in exists
                 PROVE  IF printed = <<>> THEN content[target] = before[target]
                        ELSE /\ IsPrefix(Kept, content[target])
                             /\ Stands(SubSeq(content[target], Len(Kept) + 1,
                                              Len(content[target])), printed)
        BY DEF RedirectedOutput, Kept
    <2>1. running /\ calls = <<>>
          BY DEF Done
    <2>2. Landed = Len(printed)
          BY <2>1 DEF Pending, Landed
    <2>3. Holds(content[target], Kept, before[target], Len(printed), printed)
          BY <1>1, <2>1, <2>2 DEF StdoutInv, FileInv
    <2>4. /\ content[target] \in Seq(Values) /\ before[target] \in Seq(Values)
          /\ printed \in Seq(Values)
          BY <1>1 DEF StdoutInv, TypeOK, HistoryOK, Values
    <2>5. Kept \in Seq(Values)
          BY <2>4 DEF Kept
    <2>6. CASE printed = <<>>
      <3>1. Len(printed) = 0
            BY <2>6
      <3> QED BY <2>3, <2>6, <3>1 DEF Holds
    <2>7. CASE printed # <<>>
      <3> HIDE DEF Kept
      <3> QED BY <2>3, <2>4, <2>5, <2>7, HoldsAll
    <2> QED BY <2>6, <2>7
  <1> QED BY <1>1, StdoutInvHolds, PTL

(* What is redirected changes its file only and leaves the screen alone;   *)
(* what is not, or could not be, is on the screen and in no file.          *)
THEOREM StdoutOnePlace == Spec => []OnePlace
  <1>1. ASSUME StdoutInv PROVE OnePlace
    <2> SUFFICES ASSUME Done
                 PROVE  /\ screen \in IF mode = "file" THEN {<<>>}
                                      ELSE {printed, <<NoSuchFile>> \o printed}
                        /\ \A f \in exists : \/ content[f] = before[f]
                                             \/ mode = "file" /\ f = target
        BY DEF OnePlace
    <2>1. running /\ calls = <<>> /\ mode \in {"screen", "file"}
          BY <1>1 DEF Done, StdoutInv, TypeOK
    <2>2. ScreenInv /\ FileInv
          BY <1>1, <2>1 DEF StdoutInv
    <2>3. CASE mode = "screen"
          BY <2>1, <2>2, <2>3 DEF ScreenInv, Shows
    <2>4. CASE mode = "file"
          BY <2>2, <2>4 DEF FileInv
    <2> QED BY <2>1, <2>3, <2>4
  <1> QED BY <1>1, StdoutInvHolds, PTL
=============================================================================
