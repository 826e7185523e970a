----------------------------- MODULE RmtpProofs -----------------------------
(***************************************************************************)
(* What the sample RMTP receiver promises to a sender that keeps the       *)
(* protocol, for every window, number space, initial number and file.      *)
(***************************************************************************)
EXTENDS RmtpTransfer, WellFoundedInduction, TLAPS

-----------------------------------------------------------------------------
(***************************************************************************)
(* Arithmetic of numbers that wrap.                                        *)
(***************************************************************************)
\* Remainder by a positive number, and that there is one.
LEMMA Remainder ==
  ASSUME NEW p \in Nat, p > 0, NEW x \in Int
  PROVE  /\ x % p \in 0 .. p - 1
         /\ \E q \in Int : x = p * q + (x % p)
         /\ \A q \in Int : \A r \in 0 .. p - 1 : x = p * q + r => x % p = r
<1> DEFINE d == x \div p
           m == x % p
<1>1. d \in Int /\ m \in Int /\ x = p * d + m /\ 0 <= m /\ m < p
  BY Z3
<1> HIDE DEF d, m
<1>2. ASSUME NEW a \in Int, NEW b \in Int, a < b
      PROVE  p * a + p <= p * b
  <2>1. PICK e \in Nat : b = a + 1 + e
    BY <1>2, SMT
  <2>2. p * b = p * a + p + p * e
    BY <2>1, SMT
  <2>3. p * e >= 0
    BY SMT
  <2> QED BY <2>2, <2>3, SMT
<1>3. ASSUME NEW q \in Int, NEW r \in 0 .. p - 1, x = p * q + r
      PROVE  m = r
  <2>1. p * q \in Int /\ p * d \in Int
    BY <1>1, SMT
  <2>2. ~ (d < q)
    <3>1. d < q => p * d + p <= p * q
      BY <1>1, <1>2
    <3> QED BY <1>1, <1>3, <2>1, <3>1, SMT
  <2>3. ~ (q < d)
    <3>1. q < d => p * q + p <= p * d
      BY <1>1, <1>2
    <3> QED BY <1>1, <1>3, <2>1, <3>1, SMT
  <2>4. d = q
    BY <1>1, <2>2, <2>3, SMT
  <2> QED BY <1>1, <1>3, <2>1, <2>4, SMT
<1>4. m \in 0 .. p - 1
  BY <1>1, SMT
<1> QED BY <1>1, <1>3, <1>4 DEF m

\* A small multiple is 0.
LEMMA SmallMultiple ==
  ASSUME NEW p \in Nat, p > 0, NEW q \in Int, -p < p * q, p * q < p
  PROVE  p * q = 0
<1>1. ~ (q >= 1)
  <2>1. SUFFICES ASSUME q >= 1 PROVE p * q >= p
    BY SMT
  <2>2. PICK e \in Nat : q = 1 + e
    BY <2>1, SMT
  <2>3. p * q = p + p * e /\ p * e >= 0
    BY <2>2, SMT
  <2> QED BY <2>3, SMT
<1>2. ~ (q <= -1)
  <2>1. SUFFICES ASSUME q <= -1 PROVE p * q <= -p
    BY SMT
  <2>2. PICK e \in Nat : q = -1 - e
    BY <2>1, SMT
  <2>3. p * q = -p - p * e /\ p * e >= 0
    BY <2>2, SMT
  <2> QED BY <2>3, SMT
<1>3. q = 0
  BY <1>1, <1>2, SMT
<1> QED BY <1>3, SMT

\* The number space is a whole number of rings, two at least.
LEMMA Space ==
  /\ RMTP_MAXWIN \in Nat /\ RMTP_MAXWIN > 0
  /\ SEQ_SPACE \in Nat /\ SEQ_SPACE >= 4 * RMTP_MAXWIN
  /\ Messages \in Nat /\ Messages + RMTP_MAXWIN + 2 <= SEQ_SPACE
  /\ RMTP_MAXBUFS = 2 * RMTP_MAXWIN
  /\ \E q \in Int : SEQ_SPACE = RMTP_MAXBUFS * q
  /\ SEQ_SPACE \div 2 \in Nat /\ 2 * (SEQ_SPACE \div 2) = SEQ_SPACE
<1>1. /\ RMTP_MAXWIN \in Nat /\ RMTP_MAXWIN > 0
      /\ SEQ_SPACE \in Nat /\ SEQ_SPACE > 2 * RMTP_MAXWIN
      /\ Messages \in Nat /\ Messages + RMTP_MAXWIN + 2 <= SEQ_SPACE
      /\ SEQ_SPACE % RMTP_MAXBUFS = 0
  BY RingAssumption, MessagesAssumption, SMT DEF RingAssumption, MessagesAssumption
<1>2. RMTP_MAXBUFS = 2 * RMTP_MAXWIN /\ RMTP_MAXBUFS \in Nat /\ RMTP_MAXBUFS > 0
  BY <1>1, SMT DEF RMTP_MAXBUFS
<1>3. PICK q \in Int : SEQ_SPACE = RMTP_MAXBUFS * q + 0
  BY <1>1, <1>2, Remainder
<1>4. SEQ_SPACE = RMTP_MAXBUFS * q
  BY <1>2, <1>3, SMT
<1>5. q >= 2
  <2>1. CASE q <= 0
    <3>1. PICK e \in Nat : q = -e
      BY <2>1, SMT
    <3>2. RMTP_MAXBUFS * q = -(RMTP_MAXBUFS * e) /\ RMTP_MAXBUFS * e >= 0
      BY <1>2, <3>1, SMT
    <3> QED BY <1>1, <1>2, <1>4, <3>2, SMT
  <2>2. CASE q = 1
    BY <1>1, <1>2, <1>4, <2>2, SMT
  <2> QED BY <2>1, <2>2, SMT
<1>6. SEQ_SPACE >= 4 * RMTP_MAXWIN
  <2>1. PICK e \in Nat : q = 2 + e
    BY <1>5, SMT
  <2>2. RMTP_MAXBUFS * q = 2 * RMTP_MAXBUFS + RMTP_MAXBUFS * e /\ RMTP_MAXBUFS * e >= 0
    BY <1>2, <2>1, SMT
  <2> QED BY <1>1, <1>2, <1>4, <2>2, SMT
<1>7. SEQ_SPACE \div 2 \in Nat /\ 2 * (SEQ_SPACE \div 2) = SEQ_SPACE
  <2>1. RMTP_MAXWIN * q \in Int /\ SEQ_SPACE = 2 * (RMTP_MAXWIN * q)
    BY <1>1, <1>2, <1>4, SMT
  <2> DEFINE h == RMTP_MAXWIN * q
  <2> HIDE DEF h
  <2>2. h \in Int /\ SEQ_SPACE = 2 * h
    BY <2>1 DEF h
  <2> QED BY <1>1, <2>2, SMT
<1> QED BY <1>1, <1>2, <1>4, <1>6, <1>7

\* Steps from a number add up, and can be taken within one round of the space.
LEMMA PlusFacts ==
  ASSUME NEW x \in Int
  PROVE  /\ \A a \in Int : Plus(x, a) \in Seqnos
         /\ \A a, b \in Int : Plus(Plus(x, a), b) = Plus(x, a + b)
         /\ \A a, b \in Int : Plus(x, a) = Plus(x, b)
                              /\ -SEQ_SPACE < a - b /\ a - b < SEQ_SPACE => a = b
         /\ x \in Seqnos => Plus(x, 0) = x
<1> DEFINE S == SEQ_SPACE
<1>1. S \in Nat /\ S > 0
  BY Space, SMT
<1> HIDE DEF S
<1>2. \A y \in Int : y % S \in 0 .. S - 1
  BY <1>1, Remainder
<1>3. ASSUME NEW a \in Int, NEW b \in Int
      PROVE  (((x + a) % S) + b) % S = (x + (a + b)) % S
  <2>1. x + a \in Int /\ x + (a + b) \in Int /\ (x + a) % S \in Int
    BY <1>1, <1>2, SMT
  <2>2. PICK q \in Int : x + a = S * q + ((x + a) % S)
    BY <1>1, <2>1, Remainder
  <2> DEFINE y == (x + a) % S
  <2>3. y \in Int /\ y + b \in Int
    BY <2>1, SMT
  <2>4. PICK r \in Int : y + b = S * r + ((y + b) % S)
    BY <1>1, <2>3, Remainder
  <2>5. (y + b) % S \in 0 .. S - 1
    BY <1>2, <2>3
  <2> DEFINE z == (y + b) % S
  <2> HIDE DEF y, z
  <2>6. S * (q + r) = S * q + S * r /\ S * q \in Int /\ S * r \in Int /\ q + r \in Int
    BY <1>1, SMT
  <2>7. x + (a + b) = S * (q + r) + z
    BY <1>1, <2>2, <2>3, <2>4, <2>5, <2>6, SMT DEF y, z
  <2> DEFINE t == q + r
             w == x + (a + b)
  <2>8. t \in Int /\ w \in Int /\ z \in 0 .. S - 1 /\ w = S * t + z
    BY <2>1, <2>5, <2>6, <2>7 DEF z
  <2> HIDE DEF t, w
  <2>9. w % S = z
    BY <1>1, <2>8, Remainder
  <2> QED BY <2>9 DEF w, y, z
<1>4. ASSUME NEW a \in Int, NEW b \in Int, (x + a) % S = (x + b) % S,
             -S < a - b, a - b < S
      PROVE  a = b
  <2>1. x + a \in Int /\ x + b \in Int
    BY SMT
  <2>2. PICK q \in Int : x + a = S * q + ((x + a) % S)
    BY <1>1, <2>1, Remainder
  <2>3. PICK r \in Int : x + b = S * r + ((x + b) % S)
    BY <1>1, <2>1, Remainder
  <2>4. (x + b) % S \in Int
    BY <1>1, <1>2, <2>1, SMT
  <2>5. S * (q - r) = S * q - S * r /\ S * q \in Int /\ S * r \in Int /\ q - r \in Int
    BY <1>1, SMT
  <2>6. S * (q - r) = a - b
    BY <1>1, <1>4, <2>2, <2>3, <2>4, <2>5, SMT
  <2>7. S * (q - r) = 0
    BY <1>1, <1>4, <2>5, <2>6, SmallMultiple
  <2> QED BY <2>6, <2>7, SMT
<1>5. ASSUME x \in 0 .. S - 1
      PROVE  (x + 0) % S = x
  <2>1. S * 0 = 0 /\ x + 0 = x
    BY <1>1, SMT
  <2>2. x = S * 0 + x
    BY <2>1, SMT
  <2>3. x % S = x
    BY <1>1, <1>5, <2>2, Remainder
  <2> QED BY <2>1, <2>3
<1>6. \A a \in Int : (x + a) % S \in 0 .. S - 1
  BY <1>2, SMT
<1> QED BY <1>3, <1>4, <1>5, <1>6, Zenon DEF Plus, Seqnos, S

\* How far one number is ahead of another.
LEMMA Distance ==
  ASSUME NEW x \in Seqnos, NEW y \in Seqnos
  PROVE  /\ (y - x) % SEQ_SPACE \in 0 .. SEQ_SPACE - 1
         /\ y = Plus(x, (y - x) % SEQ_SPACE)
<1> DEFINE S == SEQ_SPACE
<1>1. S \in Nat /\ S > 0 /\ x \in 0 .. S - 1 /\ y \in 0 .. S - 1
  BY Space, SMT DEF Seqnos
<1> HIDE DEF S
<1>2. y - x \in Int
  BY <1>1, SMT
<1>3. (y - x) % S \in 0 .. S - 1
  BY <1>1, <1>2, Remainder
<1>4. PICK q \in Int : y - x = S * q + ((y - x) % S)
  BY <1>1, <1>2, Remainder
<1> DEFINE d == (y - x) % S
<1> HIDE DEF d
<1>5. d \in Int /\ S * q \in Int /\ S * (-q) = -(S * q) /\ -q \in Int
  BY <1>1, <1>3, SMT DEF d
<1>6. x + d = S * (-q) + y /\ x + d \in Int
  BY <1>1, <1>4, <1>5, SMT DEF d
<1>7. (x + d) % S = y
  BY <1>1, <1>5, <1>6, Remainder
<1> QED BY <1>3, <1>7 DEF Plus, S, d

\* The two comparisons together: a number is in the window when it is less than
\* RMTP_MAXWIN steps ahead, wherever the numbers wrap.
LEMMA Feasible ==
  ASSUME NFE \in Seqnos, NEW seqno \in Seqnos
  PROVE  InFeasibleWindow(seqno) <=> (seqno - NFE) % SEQ_SPACE < RMTP_MAXWIN
<1> DEFINE S == SEQ_SPACE
           W == RMTP_MAXWIN
           h == SEQ_SPACE \div 2
           e == (seqno - NFE) % S
           P == (NFE + W) % S
<1>1. /\ S \in Nat /\ S > 0 /\ W \in Nat /\ W > 0 /\ S >= 4 * W
      /\ h \in Nat /\ 2 * h = S
      /\ NFE \in 0 .. S - 1 /\ seqno \in 0 .. S - 1
  BY Space, SMT DEF Seqnos
<1> HIDE DEF S, W, h
<1>2. seqno - NFE \in Int /\ NFE + W \in Int
  BY <1>1, SMT
<1>3. e \in 0 .. S - 1 /\ P \in 0 .. S - 1
  BY <1>1, <1>2, Remainder
<1>4. PICK r \in Int : seqno - NFE = S * r + e
  BY <1>1, <1>2, Remainder
<1>5. PICK q \in Int : NFE + W = S * q + P
  BY <1>1, <1>2, Remainder
<1> HIDE DEF e, P
<1>6. /\ S * r \in Int /\ S * q \in Int
      /\ S * (r + q) = S * r + S * q
      /\ S * (r + q - 1) = S * r + S * q - S
  BY <1>1, SMT
<1>7. seqno - P \in Int /\ r + q \in Int /\ r + q - 1 \in Int
  BY <1>1, <1>3, SMT
<1>8. CASE e >= W
  <2>1. seqno - P = S * (r + q) + (e - W) /\ e - W \in 0 .. S - 1
    BY <1>1, <1>3, <1>4, <1>5, <1>6, <1>8, SMT
  <2>2. (seqno - P) % S = e - W
    <3> DEFINE a == seqno - P
               b == e - W
               c == r + q
    <3>1. a \in Int /\ c \in Int /\ b \in 0 .. S - 1 /\ a = S * c + b
      BY <1>7, <2>1
    <3> HIDE DEF a, b, c
    <3>2. a % S = b
      BY <1>1, <3>1, Remainder
    <3> QED BY <3>2 DEF a, b
  <2>3. SEQ_LT(seqno, Plus(NFE, W)) <=> e - W >= h
    BY <2>2 DEF SEQ_LT, Plus, P, S, h, W
  <2>4. SEQ_GEQ(seqno, NFE) <=> ~ (e >= h)
    BY DEF SEQ_GEQ, SEQ_LT, e, S, h
  <2>5. ~ (e - W >= h /\ ~ (e >= h)) /\ ~ (e < W)
    BY <1>1, <1>3, <1>8, SMT
  <2> QED BY <2>3, <2>4, <2>5 DEF InFeasibleWindow, e, S, W
<1>9. CASE ~ (e >= W)
  <2>1. seqno - P = S * (r + q - 1) + (e - W + S) /\ e - W + S \in 0 .. S - 1
    BY <1>1, <1>3, <1>4, <1>5, <1>6, <1>9, SMT
  <2>2. (seqno - P) % S = e - W + S
    <3> DEFINE a == seqno - P
               b == e - W + S
               c == r + q - 1
    <3>1. a \in Int /\ c \in Int /\ b \in 0 .. S - 1 /\ a = S * c + b
      BY <1>7, <2>1
    <3> HIDE DEF a, b, c
    <3>2. a % S = b
      BY <1>1, <3>1, Remainder
    <3> QED BY <3>2 DEF a, b
  <2>3. SEQ_LT(seqno, Plus(NFE, W)) <=> e - W + S >= h
    BY <2>2 DEF SEQ_LT, Plus, P, S, h, W
  <2>4. SEQ_GEQ(seqno, NFE) <=> ~ (e >= h)
    BY DEF SEQ_GEQ, SEQ_LT, e, S, h
  <2>5. e - W + S >= h /\ ~ (e >= h) /\ e < W
    BY <1>1, <1>3, <1>9, SMT
  <2> QED BY <2>3, <2>4, <2>5 DEF InFeasibleWindow, e, S, W
<1> QED BY <1>8, <1>9

\* The same, by the number of steps.
LEMMA FeasibleSteps ==
  ASSUME NFE \in Seqnos, NEW seqno \in Seqnos
  PROVE  /\ InFeasibleWindow(seqno) <=> \E k \in 0 .. RMTP_MAXWIN - 1 : seqno = Plus(NFE, k)
         /\ Slot(seqno) \in Slots
<1> DEFINE d == (seqno - NFE) % SEQ_SPACE
<1>1. /\ RMTP_MAXWIN \in Nat /\ RMTP_MAXWIN > 0
      /\ SEQ_SPACE \in Nat /\ SEQ_SPACE >= 4 * RMTP_MAXWIN
      /\ NFE \in Int /\ seqno \in Int
  BY Space, SMT DEF Seqnos
<1>2. d \in 0 .. SEQ_SPACE - 1 /\ seqno = Plus(NFE, d)
  BY Distance
<1> HIDE DEF d
<1>3. ASSUME d < RMTP_MAXWIN
      PROVE  \E k \in 0 .. RMTP_MAXWIN - 1 : seqno = Plus(NFE, k)
  <2>1. d \in 0 .. RMTP_MAXWIN - 1
    BY <1>1, <1>2, <1>3, SMT
  <2> QED BY <1>2, <2>1
<1>4. ASSUME NEW k \in 0 .. RMTP_MAXWIN - 1, seqno = Plus(NFE, k)
      PROVE  d < RMTP_MAXWIN
  <2>1. k \in Int /\ d \in Int /\ -SEQ_SPACE < d - k /\ d - k < SEQ_SPACE
    BY <1>1, <1>2, SMT
  <2>2. d = k
    BY <1>1, <1>2, <1>4, <2>1, PlusFacts
  <2> QED BY <1>1, <2>2, SMT
<1>5. InFeasibleWindow(seqno) <=> d < RMTP_MAXWIN
  BY Feasible DEF d
<1>6. Slot(seqno) \in Slots
  <2>1. RMTP_MAXBUFS \in Nat /\ RMTP_MAXBUFS > 0
    BY <1>1, Space, SMT
  <2> QED BY <1>1, <2>1, Remainder DEF Slot, Slots
<1> QED BY <1>3, <1>4, <1>5, <1>6

\* Two numbers that are less than a ring apart never meet in a slot.
THEOREM SlotsApart ==
  ASSUME NEW x \in Seqnos, NEW j \in 0 .. RMTP_MAXBUFS - 1, NEW k \in 0 .. RMTP_MAXBUFS - 1,
         Slot(Plus(x, j)) = Slot(Plus(x, k))
  PROVE  j = k
<1> DEFINE S == SEQ_SPACE
           B == RMTP_MAXBUFS
           a == Plus(x, j)
           b == Plus(x, k)
<1>1. /\ S \in Nat /\ S > 0 /\ B \in Nat /\ B > 0 /\ x \in Int /\ j \in Int /\ k \in Int
      /\ -B < j - k /\ j - k < B
      /\ a \in Int /\ b \in Int
  <2>1. a \in Seqnos /\ b \in Seqnos
    BY Space, PlusFacts, SMT DEF Seqnos
  <2> QED BY Space, <2>1, SMT DEF Seqnos
<1>2. PICK m \in Int : S = B * m
  BY Space
<1>3. x + j \in Int /\ x + k \in Int
  BY <1>1, SMT
<1>4. PICK q \in Int : x + j = S * q + a
  BY <1>1, <1>3, Remainder DEF Plus
<1>5. PICK r \in Int : x + k = S * r + b
  BY <1>1, <1>3, Remainder DEF Plus
<1> HIDE DEF S, B, a, b
<1>6. PICK t \in Int : a = B * t + (a % B)
  BY <1>1, Remainder
<1>7. PICK u \in Int : b = B * u + (b % B)
  BY <1>1, Remainder
<1>8. a % B = b % B /\ a % B \in Int
  BY <1>1, Remainder DEF Slot, a, b, B
<1> DEFINE n == m * q - m * r + t - u
<1>9. n \in Int /\ B * n = S * q - S * r + B * t - B * u
  <2>1. S * q = B * (m * q) /\ S * r = B * (m * r)
    BY <1>1, <1>2, SMT
  <2>2. m * q \in Int /\ m * r \in Int
    BY SMT
  <2> DEFINE v == m * q
             w == m * r
  <2> HIDE DEF v, w
  <2>3. v \in Int /\ w \in Int /\ n = v - w + t - u
    BY <2>2 DEF v, w
  <2>4. B * (v - w + t - u) = B * v - B * w + B * t - B * u
    BY <1>1, <2>3, SMT
  <2> QED BY <2>1, <2>3, <2>4, SMT DEF v, w
<1>10. B * n = j - k
  <2>1. S * q \in Int /\ S * r \in Int /\ B * t \in Int /\ B * u \in Int
    BY <1>1, SMT
  <2> HIDE DEF n
  <2> QED BY <1>1, <1>4, <1>5, <1>6, <1>7, <1>8, <1>9, <2>1, SMT
<1>11. B * n = 0
  <2>1. -B < B * n /\ B * n < B
    BY <1>1, <1>10
  <2> HIDE DEF n
  <2> QED BY <1>1, <1>9, <2>1, SmallMultiple
<1> QED BY <1>1, <1>10, <1>11, SMT

\* The numbers of a file are distinct, those that a window covers included.
LEMMA NumbersApart ==
  ASSUME isn \in Seqnos, NEW a \in Int, NEW b \in Int, Number(a) = Number(b),
         -SEQ_SPACE < a - b, a - b < SEQ_SPACE
  PROVE  a = b
<1>1. isn \in Int
  BY Space, SMT DEF Seqnos
<1> QED BY <1>1, PlusFacts DEF Number

-----------------------------------------------------------------------------
(***************************************************************************)
(* The inductive invariant.  RingAhead and OutputInOrder are RingIsAhead   *)
(* and DeliveredInSequence in all states, SentInTurn and AcksInTurn say    *)
(* what may be in flight, and InStep how far the two programs are apart:   *)
(* NFE is the number after the messages consumed, the sender's acked is    *)
(* not beyond them, and neither program is in a state that the other has   *)
(* not made possible.                                                      *)
(***************************************************************************)
Consumed == Len(output)

Packets == [type : {"SYN", "DATA", "FIN", "RST"}, seqno : Seqnos, data : 0 .. Messages]

Typed ==
  /\ TypeOK
  /\ isn \in Seqnos
  /\ output \in Seq(0 .. Messages)
  /\ pkts \in [Slots -> [seqno : Seqnos \cup {-1}, data : 0 .. Messages, valid : BOOLEAN]]
  /\ toReceiver \subseteq Packets

Ahead(s) ==
  \E k \in 1 .. RMTP_MAXWIN - 1 :
    /\ pkts[s].seqno = Plus(NFE, k)
    /\ s = Slot(pkts[s].seqno)
    /\ pkts[s].data = IF sender = "ERROR" THEN Nothing ELSE Consumed + 1 + k

RingAhead ==
  /\ state = "LISTEN" => \A s \in Slots : ~pkts[s].valid
  /\ state = "ESTABLISHED" => \A s \in Slots : pkts[s].valid => Ahead(s)

OutputInOrder ==
  \A k \in 1 .. Consumed : output[k] = IF sender = "ERROR" THEN Nothing ELSE k

SentInTurn ==
  \A pkt \in toReceiver :
    \/ pkt = Syn
    \/ pkt = Fin /\ sender \in {"FIN_WAIT", "CLOSED"}
    \/ sender \notin {"SYN_SENT", "ERROR"} /\ \E n \in 1 .. Messages : pkt = Dat(n)
    \/ pkt = Rst /\ sender = "ERROR"

AcksInTurn ==
  sender # "ERROR" =>
    \A pkt \in toSender :
      \/ \E n \in 0 .. Consumed : pkt = Ack(Number(n + 1))
      \/ state = "TIME_WAIT" /\ pkt = Ack(Number(Messages + 2))

InStep ==
  /\ sender \in {"SYN_SENT", "ERROR"} => acked = 0
  /\ sender = "SYN_SENT" => Consumed = 0 /\ \A s \in Slots : ~pkts[s].valid
  /\ sender \in {"FIN_WAIT", "CLOSED"} => acked = Messages
  /\ sender = "CLOSED" => state = "TIME_WAIT"
  /\ state = "LISTEN" =>
       sender \in {"SYN_SENT", "ERROR"} /\ Consumed = 0 /\ toSender = {}
  /\ state = "TIME_WAIT" => sender \in {"FIN_WAIT", "CLOSED"}
  /\ state = "RESET" => sender = "ERROR"
  /\ sender # "ERROR" => acked <= Consumed /\ Consumed <= Messages
  /\ sender # "ERROR" /\ state = "ESTABLISHED" => NFE = Number(Consumed + 1)

RInv == Typed /\ RingAhead /\ OutputInOrder /\ SentInTurn /\ AcksInTurn /\ InStep

-----------------------------------------------------------------------------
\* What is in flight after a step was in flight before, or is sent in it.
LEMMA InFlight ==
  /\ \A channel, sent, later : later \in AfterSend(channel, sent) =>
                               \A pkt \in later : pkt \in channel \/ pkt \in sent
  /\ \A channel, pkt, later : later \in AfterReceive(channel, pkt) => later \subseteq channel
BY DEF AfterSend, AfterReceive

\* The packets of the sender are packets.
LEMMA SendersPackets ==
  ASSUME isn \in Seqnos
  PROVE  /\ \A n \in Int : Number(n) \in Seqnos
         /\ {Syn, Fin, Rst} \subseteq Packets
         /\ \A n \in 1 .. Messages : Dat(n) \in Packets
         /\ \A n, k \in Int : Plus(Number(n), k) = Number(n + k)
<1>1. isn \in Int /\ Messages \in Nat /\ 0 \in Seqnos
  BY Space, SMT DEF Seqnos
<1>2. /\ \A n \in Int : Number(n) \in Seqnos
      /\ \A n, k \in Int : Plus(Number(n), k) = Number(n + k)
  BY <1>1, PlusFacts DEF Number
<1>3. 0 \in 0 .. Messages /\ Messages + 1 \in Int /\ 0 \in Int
      /\ \A n \in 1 .. Messages : n \in Int /\ n \in 0 .. Messages
  BY <1>1, SMT
<1>4. Syn \in Packets /\ Fin \in Packets /\ Rst \in Packets
  BY <1>1, <1>2, <1>3 DEF Packets, Syn, Fin, Rst, Nothing
<1>5. \A n \in 1 .. Messages : Dat(n) \in Packets
  BY <1>2, <1>3 DEF Packets, Dat
<1> QED BY <1>2, <1>4, <1>5

\* The invariant holds at the start.
LEMMA InitRmtp == Init => RInv
<1> SUFFICES ASSUME Init PROVE RInv
  OBVIOUS
<1>1. /\ isn \in Seqnos /\ 1 \in Seqnos /\ 0 \in 0 .. Messages
      /\ Consumed = 0 /\ output \in Seq(0 .. Messages) /\ DOMAIN output = {}
  BY Space, MessagesAssumption, SMT
  DEF Init, ReceiverInit, MessagesAssumption, Seqnos, Consumed
<1>2. pkts = [s \in Slots |-> [seqno |-> -1, data |-> Nothing, valid |-> FALSE]]
  BY DEF Init, ReceiverInit
<1>3. pkts \in [Slots -> [seqno : Seqnos \cup {-1}, data : 0 .. Messages, valid : BOOLEAN]]
  BY <1>1, <1>2 DEF Nothing
<1>4. Typed
  BY <1>1, <1>2, <1>3 DEF Typed, TypeOK, Init, ReceiverInit, Nothing
<1>5. 0 <= Messages /\ \A k \in 1 .. Consumed : FALSE
  BY <1>1, Space, SMT
<1> QED BY <1>1, <1>2, <1>4, <1>5
        DEF Init, ReceiverInit, RInv, RingAhead, OutputInOrder, SentInTurn, AcksInTurn, InStep

-----------------------------------------------------------------------------
(***************************************************************************)
(* The sender's steps leave the receiver alone.                            *)
(***************************************************************************)
LEMMA SendsKeep ==
  ASSUME RInv, NEW pkt \in Packets, Send(pkt), UNCHANGED senderVars,
         \/ pkt = Syn
         \/ sender \notin {"SYN_SENT", "ERROR"} /\ \E n \in 1 .. Messages : pkt = Dat(n)
  PROVE  RInv'
<1>1. UNCHANGED <<state, NFE, pkts, output, sender, isn, acked, toSender, Consumed>>
  BY DEF Send, receiverVars, senderVars, Consumed
<1>2. \A p \in toReceiver' : p \in toReceiver \/ p = pkt
  BY InFlight DEF Send
<1>3. Typed'
  BY <1>1, <1>2 DEF RInv, Typed, TypeOK, Packets
<1>4. SentInTurn'
  BY <1>1, <1>2 DEF RInv, SentInTurn, Syn, Fin, Dat, Rst, Number
<1>5. RingAhead' /\ OutputInOrder' /\ AcksInTurn' /\ InStep'
  BY <1>1 DEF RInv, RingAhead, Ahead, OutputInOrder, AcksInTurn, InStep, Number
<1> QED BY <1>3, <1>4, <1>5 DEF RInv

\* The RST of a sender that gives up finds nothing consumed.
LEMMA GivingUpKeeps ==
  ASSUME RInv, GiveUp
  PROVE  RInv'
<1>1. /\ UNCHANGED <<state, NFE, pkts, output, isn, acked, toSender, Consumed>>
      /\ sender = "SYN_SENT" /\ sender' = "ERROR"
  BY DEF GiveUp, Send, receiverVars, Consumed
<1>2. \A p \in toReceiver' : p \in toReceiver \/ p = Rst
  BY InFlight DEF GiveUp, Send
<1>3. Typed'
  BY <1>1, <1>2, SendersPackets DEF RInv, Typed, TypeOK, Packets
<1>4. SentInTurn'
  BY <1>1, <1>2 DEF RInv, SentInTurn, Syn, Rst, Number
<1>5. /\ Consumed = 0 /\ acked = 0 /\ \A s \in Slots : ~pkts[s].valid
      /\ \A k \in 1 .. Consumed : FALSE
  BY <1>1, SMT DEF RInv, InStep
<1>6. RingAhead' /\ OutputInOrder'
  BY <1>1, <1>5 DEF RingAhead, OutputInOrder
<1>7. AcksInTurn' /\ InStep'
  BY <1>1, <1>5 DEF RInv, AcksInTurn, InStep
<1> QED BY <1>3, <1>4, <1>6, <1>7 DEF RInv

\* The FIN is sent when every message is known to be consumed.
LEMMA FinKeeps ==
  ASSUME RInv, SendFin
  PROVE  RInv'
<1>1. /\ UNCHANGED <<state, NFE, pkts, output, isn, acked, toSender, Consumed>>
      /\ sender \in {"ESTABLISHED", "FIN_WAIT"} /\ sender' = "FIN_WAIT"
      /\ acked = Messages
  BY DEF SendFin, Send, receiverVars, Consumed
<1>2. \A p \in toReceiver' : p \in toReceiver \/ p = Fin
  BY InFlight DEF SendFin, Send
<1>3. Typed'
  BY <1>1, <1>2, SendersPackets DEF RInv, Typed, TypeOK, Packets
<1>4. SentInTurn'
  BY <1>1, <1>2 DEF RInv, SentInTurn, Syn, Fin, Dat, Rst, Number
<1>5. RingAhead' /\ OutputInOrder' /\ AcksInTurn' /\ InStep'
  BY <1>1 DEF RInv, RingAhead, Ahead, OutputInOrder, AcksInTurn, InStep, Number
<1> QED BY <1>3, <1>4, <1>5 DEF RInv

\* An ACK that the sender takes is for messages that were consumed.
LEMMA AckedConsumed ==
  ASSUME RInv, NEW pkt \in toSender, sender \in {"SYN_SENT", "ESTABLISHED"},
         NEW k \in 0 .. RMTP_MAXWIN, pkt.seqno = Number(acked + k + 1)
  PROVE  acked + k <= Consumed
<1>1. PICK n \in 0 .. Consumed : pkt = Ack(Number(n + 1))
  BY DEF RInv, AcksInTurn, InStep
<1>2. /\ acked \in Nat /\ acked <= Messages /\ Consumed \in Nat /\ Consumed <= Messages
      /\ isn \in Seqnos
  BY Space, SMT DEF RInv, Typed, TypeOK, InStep, Consumed
<1>3. Number(acked + k + 1) = Number(n + 1)
  BY <1>1 DEF Ack
<1>4. /\ acked + k + 1 \in Int /\ n + 1 \in Int
      /\ -SEQ_SPACE < (acked + k + 1) - (n + 1) /\ (acked + k + 1) - (n + 1) < SEQ_SPACE
  BY <1>2, Space, SMT
<1>5. acked + k + 1 = n + 1
  BY <1>2, <1>3, <1>4, NumbersApart
<1> QED BY <1>2, <1>5, SMT

\* In the state that sends data, the receiver listens no more.
LEMMA AcksKeep ==
  ASSUME RInv, NEW pkt \in toSender, GetAck(pkt),
         acked' \in 0 .. Messages, acked <= acked', acked' <= Consumed,
         \/ sender = "SYN_SENT" /\ sender' = "ESTABLISHED" /\ acked' = acked
         \/ sender = "ESTABLISHED" /\ sender' = "ESTABLISHED"
         \/ sender = "FIN_WAIT" /\ sender' = "CLOSED" /\ acked' = acked /\ state = "TIME_WAIT"
  PROVE  RInv'
<1>1. UNCHANGED <<state, NFE, pkts, output, isn, toReceiver, Consumed>>
  BY DEF GetAck, receiverVars, Consumed
<1>2. toSender' \subseteq toSender
  BY InFlight DEF GetAck
<1>3. Typed'
  BY <1>1 DEF RInv, Typed, TypeOK, Packets
<1>4. SentInTurn'
  BY <1>1 DEF RInv, SentInTurn, Syn, Fin, Dat, Rst, Number
<1>5. RingAhead' /\ OutputInOrder' /\ AcksInTurn'
  BY <1>1, <1>2 DEF RInv, RingAhead, Ahead, OutputInOrder, AcksInTurn, Number
<1>6. state # "LISTEN"
  BY DEF RInv, InStep
<1>7. InStep'
  BY <1>1, <1>2, <1>6 DEF RInv, InStep, Number
<1> QED BY <1>3, <1>4, <1>5, <1>7 DEF RInv

\* Every step of the sender keeps the invariant.
LEMMA SenderKeeps ==
  ASSUME RInv, Sender
  PROVE  RInv'
<1>1. /\ acked \in Nat /\ acked <= Messages /\ Consumed \in Nat /\ Messages \in Nat
      /\ isn \in Seqnos /\ RMTP_MAXWIN \in Nat /\ RMTP_MAXWIN > 0
      /\ sender # "ERROR" => acked <= Consumed /\ Consumed <= Messages
  BY Space, SMT DEF RInv, Typed, TypeOK, InStep, Consumed
<1>2. CASE SendSyn
  BY <1>1, <1>2, SendersPackets, SendsKeep DEF SendSyn
<1>3. CASE GiveUp
  BY <1>3, GivingUpKeeps
<1>4. CASE SendFin
  BY <1>4, FinKeeps
<1>5. CASE \E n \in 1 .. Messages : SendData(n)
  BY <1>1, <1>5, SendersPackets, SendsKeep DEF SendData
<1>6. ASSUME NEW pkt \in toSender, GetSynAck(pkt)
      PROVE  RInv'
  <2>1. acked' = acked /\ acked \in 0 .. Messages /\ acked <= acked' /\ sender # "ERROR"
    BY <1>1, <1>6, SMT DEF GetSynAck
  <2> QED BY <1>1, <1>6, <2>1, AcksKeep DEF GetSynAck
<1>7. ASSUME NEW pkt \in toSender, GetDataAck(pkt)
      PROVE  RInv'
  <2>1. PICK k \in 1 .. RMTP_MAXWIN : pkt.seqno = Number(acked + k + 1) /\ acked' = acked + k
    BY <1>7 DEF GetDataAck
  <2>2. k \in 0 .. RMTP_MAXWIN /\ sender = "ESTABLISHED" /\ sender' = "ESTABLISHED"
    BY <1>1, <1>7, SMT DEF GetDataAck
  <2>3. acked + k <= Consumed
    BY <2>1, <2>2, AckedConsumed
  <2>4. acked' \in 0 .. Messages /\ acked <= acked' /\ acked' <= Consumed
    BY <1>1, <2>1, <2>2, <2>3, SMT
  <2> QED BY <1>7, <2>2, <2>4, AcksKeep DEF GetDataAck
<1>8. ASSUME NEW pkt \in toSender, GetFinAck(pkt)
      PROVE  RInv'
  <2>1. /\ sender = "FIN_WAIT" /\ sender' = "CLOSED" /\ acked' = acked
        /\ pkt.seqno = Number(Messages + 2)
    BY <1>8 DEF GetFinAck
  <2>2. state = "TIME_WAIT"
    <3>1. SUFFICES ASSUME NEW n \in 0 .. Consumed, pkt = Ack(Number(n + 1))
                   PROVE  FALSE
      BY <1>8, <2>1 DEF RInv, AcksInTurn
    <3>2. /\ n + 1 \in Int /\ Messages + 2 \in Int /\ n + 1 # Messages + 2
          /\ -SEQ_SPACE < (n + 1) - (Messages + 2) /\ (n + 1) - (Messages + 2) < SEQ_SPACE
      BY <1>1, <2>1, Space, SMT
    <3> QED BY <1>1, <2>1, <3>1, <3>2, NumbersApart DEF Ack
  <2>3. acked' \in 0 .. Messages /\ acked <= acked' /\ acked' <= Consumed
    BY <1>1, <2>1, SMT
  <2> QED BY <1>8, <2>1, <2>2, <2>3, AcksKeep DEF GetFinAck
<1> QED BY <1>2, <1>3, <1>4, <1>5, <1>6, <1>7, <1>8 DEF Sender

-----------------------------------------------------------------------------
(***************************************************************************)
(* The receiver's steps: first what pkts and the packet that is read are.  *)
(***************************************************************************)
\* A non-empty set of numbers has a least one.
LEMMA LeastNumber ==
  ASSUME NEW T, T \subseteq Nat, T # {}
  PROVE  \E t \in T : \A u \in T : t <= u
<1>1. PICK t \in T : \A u \in T : ~ (<<u, t>> \in OpToRel(<, Nat))
  BY NatLessThanWellFounded, WFMin
<1>2. \A u \in T : ~ (u < t)
  BY <1>1 DEF OpToRel
<1> QED BY <1>2, SMT

\* The loop stops at the first number that the ring does not hold.
LEMMA EarlyStops ==
  ASSUME NEW seqno
  PROVE  /\ Early(seqno) \in 0 .. RMTP_MAXBUFS
         /\ \A j \in 1 .. Early(seqno) : Holds(Plus(seqno, j))
         /\ Early(seqno) = RMTP_MAXBUFS \/ ~Holds(Plus(seqno, Early(seqno) + 1))
<1> DEFINE T == {k \in 0 .. RMTP_MAXBUFS : k = RMTP_MAXBUFS \/ ~Holds(Plus(seqno, k + 1))}
           Stop(k) == /\ \A j \in 1 .. k : Holds(Plus(seqno, j))
                      /\ k = RMTP_MAXBUFS \/ ~Holds(Plus(seqno, k + 1))
<1>1. RMTP_MAXBUFS \in Nat
  BY Space, SMT
<1>2. T \subseteq Nat /\ RMTP_MAXBUFS \in T
  BY <1>1, SMT
<1>3. PICK t \in T : \A u \in T : t <= u
  BY <1>2, LeastNumber
<1>4. ASSUME NEW j \in 1 .. t PROVE Holds(Plus(seqno, j))
  <2>1. j - 1 \in 0 .. RMTP_MAXBUFS /\ j - 1 # RMTP_MAXBUFS /\ (j - 1) + 1 = j /\ ~ (t <= j - 1)
    BY <1>1, <1>3, SMT
  <2>2. j - 1 \notin T
    BY <1>3, <2>1
  <2> QED BY <2>1, <2>2
<1>5. t \in 0 .. RMTP_MAXBUFS /\ Stop(t)
  BY <1>3, <1>4
<1>6. Early(seqno) = CHOOSE k \in 0 .. RMTP_MAXBUFS : Stop(k)
  BY DEF Early
<1> HIDE DEF Stop, T
<1>7. Early(seqno) \in 0 .. RMTP_MAXBUFS /\ Stop(Early(seqno))
  BY <1>5, <1>6
<1> QED BY <1>7 DEF Stop

\* What the ring holds of the numbers after the expected one is ahead by as
\* many steps, and the loop that takes it stops within the window.
LEMMA EarlyAhead ==
  ASSUME RInv, state = "ESTABLISHED"
  PROVE  /\ Early(NFE) \in 0 .. RMTP_MAXWIN - 1
         /\ \A j \in 1 .. Early(NFE) :
              pkts[Slot(Plus(NFE, j))].data =
                IF sender = "ERROR" THEN Nothing ELSE Consumed + 1 + j
<1> DEFINE e == Early(NFE)
<1>1. /\ RMTP_MAXWIN \in Nat /\ RMTP_MAXWIN > 0 /\ RMTP_MAXBUFS = 2 * RMTP_MAXWIN
      /\ SEQ_SPACE \in Nat /\ SEQ_SPACE >= 4 * RMTP_MAXWIN
      /\ NFE \in Seqnos /\ NFE \in Int
  BY Space, SMT DEF RInv, Typed, TypeOK, Seqnos
<1>2. e \in 0 .. RMTP_MAXBUFS /\ \A j \in 1 .. e : Holds(Plus(NFE, j))
  BY EarlyStops
<1> HIDE DEF e
<1>3. ASSUME NEW j \in 1 .. e
      PROVE  /\ j \in 1 .. RMTP_MAXWIN - 1
             /\ pkts[Slot(Plus(NFE, j))].data =
                  IF sender = "ERROR" THEN Nothing ELSE Consumed + 1 + j
  <2> DEFINE s == Slot(Plus(NFE, j))
  <2>1. j \in Int /\ j >= 1 /\ j <= RMTP_MAXBUFS
    BY <1>1, <1>2, SMT
  <2>2. Plus(NFE, j) \in Seqnos
    BY <1>1, <2>1, PlusFacts
  <2>3. s \in Slots
    BY <1>1, <2>2, FeasibleSteps
  <2>4. pkts[s].valid /\ pkts[s].seqno = Plus(NFE, j)
    BY <1>2 DEF Holds
  <2> HIDE DEF s
  <2>5. PICK k \in 1 .. RMTP_MAXWIN - 1 :
          /\ pkts[s].seqno = Plus(NFE, k)
          /\ pkts[s].data = IF sender = "ERROR" THEN Nothing ELSE Consumed + 1 + k
    BY <2>3, <2>4 DEF RInv, RingAhead, Ahead
  <2>6. k \in Int /\ -SEQ_SPACE < j - k /\ j - k < SEQ_SPACE
    BY <1>1, <2>1, SMT
  <2>7. j = k
    BY <1>1, <2>1, <2>4, <2>5, <2>6, PlusFacts
  <2> QED BY <2>5, <2>7 DEF s
<1>4. e \in 0 .. RMTP_MAXWIN - 1
  <2>1. CASE e = 0
    BY <1>1, <2>1, SMT
  <2>2. CASE e # 0
    <3>1. e \in 1 .. e
      BY <1>1, <1>2, <2>2, SMT
    <3>2. e \in 1 .. RMTP_MAXWIN - 1
      BY <1>3, <3>1
    <3> QED BY <1>1, <3>2, SMT
  <2> QED BY <2>1, <2>2
<1> QED BY <1>3, <1>4 DEF e

\* A packet read as data in the window is a message that was not consumed, as
\* many after the expected one as its number is; or an RST, if the sender has
\* given up.
LEMMA DataAhead ==
  ASSUME RInv, NEW pkt, ReadsData(pkt), InFeasibleWindow(pkt.seqno)
  PROVE  \E k \in 0 .. RMTP_MAXWIN - 1 :
           /\ pkt.seqno = Plus(NFE, k)
           /\ pkt.data = IF sender = "ERROR" THEN Nothing ELSE Consumed + 1 + k
           /\ pkt.data \in 0 .. Messages
           /\ pkt.seqno \in Seqnos
           /\ sender # "SYN_SENT"
<1>1. /\ state = "ESTABLISHED" /\ pkt \in toReceiver /\ pkt.type # "FIN"
      /\ pkt \in Packets
  BY DEF ReadsData, readpkt, RInv, Typed
<1>2. /\ RMTP_MAXWIN \in Nat /\ RMTP_MAXWIN > 0
      /\ SEQ_SPACE \in Nat /\ SEQ_SPACE >= 4 * RMTP_MAXWIN
      /\ Messages \in Nat /\ Messages + RMTP_MAXWIN + 2 <= SEQ_SPACE
      /\ NFE \in Seqnos /\ isn \in Seqnos /\ Consumed \in Nat
      /\ sender # "ERROR" => Consumed <= Messages /\ NFE = Number(Consumed + 1)
  BY <1>1, Space, SMT DEF RInv, Typed, TypeOK, InStep, Consumed
<1>3. pkt.seqno \in Seqnos /\ pkt.data \in 0 .. Messages
  BY <1>1 DEF Packets
<1>4. PICK k \in 0 .. RMTP_MAXWIN - 1 : pkt.seqno = Plus(NFE, k)
  BY <1>2, <1>3, FeasibleSteps
<1>5. CASE sender = "ERROR"
  <2>1. pkt = Syn \/ pkt = Rst
    BY <1>1, <1>5 DEF RInv, SentInTurn
  <2> QED BY <1>3, <1>4, <1>5, <2>1 DEF Syn, Rst
<1>6. CASE sender # "ERROR"
  <2>1. k \in Int /\ Consumed + 1 \in Int
    BY <1>2, SMT
  <2>2. pkt.seqno = Number((Consumed + 1) + k)
    BY <1>2, <1>4, <1>6, <2>1, SendersPackets
  <2>3. ASSUME NEW n \in 0 .. Messages, pkt.seqno = Number(n)
        PROVE  n = Consumed + 1 + k
    <3>1. /\ n \in Int /\ (Consumed + 1) + k \in Int
          /\ -SEQ_SPACE < n - ((Consumed + 1) + k) /\ n - ((Consumed + 1) + k) < SEQ_SPACE
      BY <1>2, <1>6, SMT
    <3> QED BY <1>2, <2>2, <2>3, <3>1, NumbersApart
  <2>4. pkt # Syn
    <3>1. SUFFICES ASSUME pkt = Syn PROVE FALSE
      OBVIOUS
    <3>2. pkt.seqno = Number(0) /\ 0 \in 0 .. Messages
      BY <1>2, <3>1, SMT DEF Syn
    <3>3. 0 = Consumed + 1 + k
      BY <2>3, <3>2
    <3> QED BY <1>2, <3>3, SMT
  <2>5. sender # "SYN_SENT" /\ \E n \in 1 .. Messages : pkt = Dat(n)
    BY <1>1, <1>6, <2>4 DEF RInv, SentInTurn, Fin
  <2>6. PICK n \in 1 .. Messages : pkt = Dat(n)
    BY <2>5
  <2>7. n \in 0 .. Messages /\ pkt.seqno = Number(n) /\ pkt.data = n
    BY <1>2, <2>6, SMT DEF Dat
  <2>8. n = Consumed + 1 + k
    BY <2>3, <2>7
  <2> QED BY <1>3, <1>4, <1>6, <2>5, <2>7, <2>8
<1> QED BY <1>5, <1>6

\* An ACK of the expected number is in turn.
LEMMA AcksOfExpected ==
  ASSUME RInv, state = "ESTABLISHED", UNCHANGED <<state, NFE, output, sender, isn>>,
         rmtp_send_ack(NFE)
  PROVE  AcksInTurn'
<1>1. \A p \in toSender' : p \in toSender \/ p = Ack(NFE)
  BY InFlight DEF rmtp_send_ack
<1>2. Consumed' = Consumed /\ Consumed \in 0 .. Consumed
  BY SMT DEF Consumed, RInv, Typed
<1>3. sender # "ERROR" => NFE = Number(Consumed + 1)
  BY DEF RInv, InStep
<1> QED BY <1>1, <1>2, <1>3 DEF RInv, AcksInTurn, Number, Ack

\* What reading a packet leaves of the sender's part.
LEMMA ReadKeeps ==
  ASSUME RInv, NEW pkt, readpkt(pkt), UNCHANGED senderVars
  PROVE  /\ SentInTurn' /\ toReceiver' \subseteq Packets
         /\ UNCHANGED <<sender, isn, acked>>
<1>1. toReceiver' \subseteq toReceiver /\ UNCHANGED <<sender, isn, acked>>
  BY InFlight DEF readpkt, senderVars
<1> QED BY <1>1 DEF RInv, Typed, SentInTurn, Syn, Fin, Dat, Rst, Number

\* The first number after the SYN's is expected.
LEMMA SynKeeps ==
  ASSUME RInv, NEW pkt, ReceiveSyn(pkt), UNCHANGED senderVars
  PROVE  RInv'
<1>1. /\ state = "LISTEN" /\ state' = "ESTABLISHED"
      /\ UNCHANGED <<pkts, output, sender, isn, acked, Consumed>>
      /\ pkt \in toReceiver /\ pkt.type = "SYN"
      /\ readpkt(pkt) /\ NFE' = Plus(pkt.seqno, 1)
  BY DEF ReceiveSyn, senderVars, Consumed, readpkt
<1>2. /\ sender \in {"SYN_SENT", "ERROR"} /\ Consumed = 0 /\ toSender = {}
      /\ \A s \in Slots : ~pkts[s].valid
      /\ isn \in Seqnos
  BY <1>1 DEF RInv, InStep, RingAhead, Typed
<1>3. pkt = Syn
  BY <1>1 DEF RInv, SentInTurn, Fin, Dat, Rst
<1>4. NFE' = Number(1) /\ NFE' \in Seqnos
  <2>1. 0 \in Int /\ 1 \in Int /\ 0 + 1 = 1
    BY SMT
  <2> QED BY <1>1, <1>2, <1>3, <2>1, SendersPackets DEF Syn
<1>5. SentInTurn' /\ toReceiver' \subseteq Packets
  BY <1>1, ReadKeeps
<1>6. Typed'
  BY <1>1, <1>4, <1>5 DEF RInv, Typed, TypeOK, Packets
<1>7. RingAhead' /\ OutputInOrder'
  BY <1>1, <1>2 DEF RInv, RingAhead, OutputInOrder
<1>8. AcksInTurn'
  <2>1. \A p \in toSender' : p = Ack(Number(1))
    BY <1>2, <1>4, InFlight DEF ReceiveSyn, rmtp_send_ack
  <2>2. 0 \in 0 .. Consumed /\ 0 + 1 = 1
    BY <1>2, SMT
  <2> QED BY <1>1, <2>1, <2>2 DEF AcksInTurn, Number, Ack
<1>9. InStep'
  <2>1. Consumed + 1 = 1
    BY <1>2, SMT
  <2> QED BY <1>1, <1>2, <1>4, <2>1 DEF RInv, InStep, Number
<1> QED BY <1>5, <1>6, <1>7, <1>8, <1>9 DEF RInv

\* The FIN of a sender that keeps the protocol is the next frame expected.
LEMMA FinExpected ==
  ASSUME RInv, NEW pkt \in toReceiver, pkt.type = "FIN"
  PROVE  /\ sender \in {"FIN_WAIT", "CLOSED"} /\ acked = Messages /\ Consumed = Messages
         /\ pkt = Fin
         /\ state = "ESTABLISHED" => pkt.seqno = NFE
<1>1. pkt = Fin /\ sender \in {"FIN_WAIT", "CLOSED"}
  BY DEF RInv, SentInTurn, Syn, Dat, Rst
<1>2. acked = Messages /\ acked <= Consumed /\ Consumed <= Messages
  BY <1>1 DEF RInv, InStep
<1>3. Consumed = Messages
  BY <1>2, Space, SMT DEF RInv, Typed, Consumed
<1> QED BY <1>1, <1>2, <1>3 DEF RInv, InStep, Fin

\* Only a sender that has given up is reset.
LEMMA ResetKeeps ==
  ASSUME RInv, NEW pkt, Reset(pkt), UNCHANGED senderVars
  PROVE  RInv'
<1>1. /\ pkt \in toReceiver /\ readpkt(pkt)
      /\ UNCHANGED <<NFE, pkts, output, toSender, sender, isn, acked, Consumed>>
      /\ state' = "RESET"
  BY DEF Reset, readpkt, senderVars, Consumed
<1>2. sender = "ERROR"
  <2>1. CASE state = "LISTEN"
    BY <1>1, <2>1 DEF RInv, InStep, SentInTurn, Syn, Reset, ProtocolError
  <2>2. CASE state # "LISTEN"
    BY <1>1, <2>2, FinExpected DEF Reset, ProtocolError
  <2> QED BY <2>1, <2>2
<1>3. SentInTurn' /\ toReceiver' \subseteq Packets
  BY <1>1, ReadKeeps
<1>4. Typed'
  BY <1>1, <1>3 DEF RInv, Typed, TypeOK, Packets
<1>5. RingAhead' /\ OutputInOrder' /\ AcksInTurn' /\ InStep'
  BY <1>1, <1>2 DEF RInv, RingAhead, OutputInOrder, AcksInTurn, InStep
<1> QED BY <1>3, <1>4, <1>5 DEF RInv

\* The FIN is taken when all messages are consumed, and has a number of its own.
LEMMA ReceiveFinKeeps ==
  ASSUME RInv, NEW pkt, ReceiveFin(pkt), UNCHANGED senderVars
  PROVE  RInv'
<1>1. /\ pkt \in toReceiver /\ readpkt(pkt) /\ pkt.type = "FIN"
      /\ UNCHANGED <<pkts, output, sender, isn, acked, Consumed>>
      /\ state = "ESTABLISHED" /\ state' = "TIME_WAIT"
      /\ NFE' = Plus(pkt.seqno, 1)
  BY DEF ReceiveFin, readpkt, senderVars, Consumed
<1>2. /\ sender \in {"FIN_WAIT", "CLOSED"} /\ acked = Messages /\ Consumed = Messages
      /\ pkt = Fin /\ isn \in Seqnos /\ Messages \in Nat
  BY <1>1, FinExpected, Space DEF RInv, Typed
<1>3. NFE' = Number(Messages + 2) /\ NFE' \in Seqnos
  <2>1. /\ Messages + 1 \in Int /\ 1 \in Int /\ Messages + 2 \in Int
        /\ (Messages + 1) + 1 = Messages + 2
    BY <1>2, SMT
  <2> QED BY <1>1, <1>2, <2>1, SendersPackets DEF Fin
<1>4. SentInTurn' /\ toReceiver' \subseteq Packets
  BY <1>1, ReadKeeps
<1>5. Typed'
  BY <1>1, <1>3, <1>4 DEF RInv, Typed, TypeOK, Packets
<1>6. RingAhead' /\ OutputInOrder'
  BY <1>1 DEF RInv, RingAhead, OutputInOrder
<1>7. AcksInTurn'
  <2>1. \A p \in toSender' : p \in toSender \/ p = Ack(Number(Messages + 2))
    BY <1>3, InFlight DEF ReceiveFin, rmtp_send_ack
  <2> QED BY <1>1, <2>1 DEF RInv, AcksInTurn, Number, Ack
<1>8. InStep'
  BY <1>1, <1>2 DEF RInv, InStep
<1> QED BY <1>4, <1>5, <1>6, <1>7, <1>8 DEF RInv

\* What is outside the window leaves the receiver as it was.
LEMMA OutsideKeeps ==
  ASSUME RInv, NEW pkt, ReceiveOutside(pkt), UNCHANGED senderVars
  PROVE  RInv'
<1>1. /\ readpkt(pkt) /\ state = "ESTABLISHED" /\ rmtp_send_ack(NFE)
      /\ UNCHANGED <<state, NFE, pkts, output, sender, isn, acked, Consumed>>
  BY DEF ReceiveOutside, ReadsData, receiverVars, senderVars, Consumed
<1>2. SentInTurn' /\ toReceiver' \subseteq Packets
  BY <1>1, ReadKeeps
<1>3. AcksInTurn'
  BY <1>1, AcksOfExpected
<1>4. Typed'
  BY <1>1, <1>2 DEF RInv, Typed, TypeOK, Packets
<1>5. RingAhead' /\ OutputInOrder' /\ InStep'
  BY <1>1 DEF RInv, RingAhead, Ahead, OutputInOrder, InStep, Number
<1> QED BY <1>2, <1>3, <1>4, <1>5 DEF RInv

\* What is stored is ahead, in a slot that nothing else ahead has.
LEMMA EarlyKeeps ==
  ASSUME RInv, NEW pkt, ReceiveEarly(pkt), UNCHANGED senderVars
  PROVE  RInv'
<1>1. /\ readpkt(pkt) /\ ReadsData(pkt) /\ state = "ESTABLISHED" /\ rmtp_send_ack(NFE)
      /\ InFeasibleWindow(pkt.seqno) /\ pkt.seqno # NFE
      /\ pkts' = [pkts EXCEPT ![Slot(pkt.seqno)] =
                    [seqno |-> pkt.seqno, data |-> pkt.data, valid |-> TRUE]]
      /\ UNCHANGED <<state, NFE, output, sender, isn, acked, Consumed>>
  BY DEF ReceiveEarly, ReadsData, Stash, InOrder, senderVars, Consumed
<1>2. SentInTurn' /\ toReceiver' \subseteq Packets
  BY <1>1, ReadKeeps
<1>3. AcksInTurn'
  BY <1>1, AcksOfExpected
<1>4. PICK k \in 0 .. RMTP_MAXWIN - 1 :
        /\ pkt.seqno = Plus(NFE, k)
        /\ pkt.data = IF sender = "ERROR" THEN Nothing ELSE Consumed + 1 + k
        /\ pkt.data \in 0 .. Messages
        /\ pkt.seqno \in Seqnos
        /\ sender # "SYN_SENT"
  BY <1>1, DataAhead
<1>5. NFE \in Seqnos /\ NFE \in Int /\ Slot(pkt.seqno) \in Slots
  BY <1>4, FeasibleSteps, Space, SMT DEF RInv, Typed, TypeOK, Seqnos
<1>6. k \in 1 .. RMTP_MAXWIN - 1
  <2>1. k # 0
    BY <1>1, <1>4, <1>5, PlusFacts
  <2> QED BY <2>1, Space, SMT
<1>7. Typed'
  <2>1. pkts' \in [Slots -> [seqno : Seqnos \cup {-1}, data : 0 .. Messages, valid : BOOLEAN]]
    BY <1>1, <1>4, <1>5 DEF RInv, Typed
  <2> QED BY <1>1, <1>2, <2>1 DEF RInv, Typed, TypeOK, Packets
<1>8. RingAhead'
  <2>1. ASSUME NEW s \in Slots, pkts'[s].valid
        PROVE  Ahead(s)'
    <3>1. CASE s = Slot(pkt.seqno)
      <4>1. /\ pkts'[s].seqno = Plus(NFE, k) /\ s = Slot(pkts'[s].seqno)
            /\ pkts'[s].data = IF sender = "ERROR" THEN Nothing ELSE Consumed + 1 + k
        BY <1>1, <1>4, <1>5, <3>1 DEF RInv, Typed
      <4> QED BY <1>1, <1>6, <4>1 DEF Ahead
    <3>2. CASE s # Slot(pkt.seqno)
      <4>1. pkts'[s] = pkts[s]
        BY <1>1, <1>5, <3>2 DEF RInv, Typed
      <4>2. Ahead(s)
        BY <1>1, <2>1, <4>1 DEF RInv, RingAhead
      <4> QED BY <1>1, <4>1, <4>2 DEF Ahead
    <3> QED BY <3>1, <3>2
  <2> QED BY <1>1, <2>1 DEF RingAhead
<1>9. OutputInOrder' /\ InStep'
  BY <1>1, <1>4 DEF RInv, OutputInOrder, InStep, Number
<1> QED BY <1>2, <1>3, <1>7, <1>8, <1>9 DEF RInv

\* The entries of a sequence.
LEMMA EntriesOf ==
  ASSUME NEW T, NEW q \in Seq(T), NEW k \in 1 .. Len(q)
  PROVE  q[k] \in T
OBVIOUS

\* The messages that are consumed with the expected one come after it.
LEMMA OutputGrows ==
  ASSUME RInv, NEW pkt, ReceiveInOrder(pkt), UNCHANGED senderVars
  PROVE  LET e == Early(NFE)
         IN  /\ e \in 0 .. RMTP_MAXWIN - 1
             /\ output' \in Seq(0 .. Messages)
             /\ Consumed' = Consumed + 1 + e
             /\ \A k \in 1 .. Consumed : output'[k] = output[k]
             /\ \A k \in Consumed + 1 .. Consumed' :
                  output'[k] = IF sender = "ERROR" THEN Nothing ELSE k
             /\ sender # "ERROR" => Consumed' <= Messages
             /\ sender # "SYN_SENT"
<1> DEFINE e == Early(NFE)
           d(j) == pkts[Slot(Plus(NFE, j))].data
<1>1. /\ ReadsData(pkt) /\ state = "ESTABLISHED"
      /\ InFeasibleWindow(pkt.seqno) /\ pkt.seqno = NFE
      /\ output' = output \o (<<pkt.data>> \o [j \in 1 .. e |-> d(j)])
  BY DEF ReceiveInOrder, ReadsData, InOrder, rmtp_consume
<1>2. PICK k \in 0 .. RMTP_MAXWIN - 1 :
        /\ pkt.seqno = Plus(NFE, k)
        /\ pkt.data = IF sender = "ERROR" THEN Nothing ELSE Consumed + 1 + k
        /\ pkt.data \in 0 .. Messages
        /\ sender # "SYN_SENT"
  BY <1>1, DataAhead
<1>3. /\ RMTP_MAXWIN \in Nat /\ Messages \in Nat /\ Consumed \in Nat
      /\ NFE \in Int /\ NFE \in Seqnos
      /\ SEQ_SPACE \in Nat /\ SEQ_SPACE >= 4 * RMTP_MAXWIN
      /\ output \in Seq(0 .. Messages)
  BY Space, SMT DEF RInv, Typed, TypeOK, Seqnos, Consumed
<1>4. k = 0
  <2>1. NFE = Plus(NFE, 0)
    BY <1>3, PlusFacts
  <2>2. k \in Int /\ 0 \in Int /\ -SEQ_SPACE < k - 0 /\ k - 0 < SEQ_SPACE
    BY <1>3, SMT
  <2> QED BY <1>1, <1>2, <1>3, <2>1, <2>2, PlusFacts
<1>5. /\ e \in 0 .. RMTP_MAXWIN - 1
      /\ \A j \in 1 .. e : d(j) = IF sender = "ERROR" THEN Nothing ELSE Consumed + 1 + j
  BY <1>1, EarlyAhead
<1>6. \A j \in 1 .. e : d(j) \in 0 .. Messages
  <2>1. SUFFICES ASSUME NEW j \in 1 .. e PROVE d(j) \in 0 .. Messages
    OBVIOUS
  <2>2. j \in Int
    BY <1>5, SMT
  <2>3. Plus(NFE, j) \in Seqnos
    BY <1>3, <2>2, PlusFacts
  <2>4. Slot(Plus(NFE, j)) \in Slots
    BY <1>3, <2>3, FeasibleSteps
  <2> QED BY <2>4 DEF RInv, Typed
<1> DEFINE more == [j \in 1 .. e |-> d(j)]
           n == Len(output)
<1> HIDE DEF e, d
<1>7. e \in Nat /\ more \in Seq(0 .. Messages) /\ Len(more) = e
      /\ \A j \in 1 .. e : more[j] = d(j)
  BY <1>3, <1>5, <1>6, SMT
<1> HIDE DEF more
<1>8. /\ output' \in Seq(0 .. Messages)
      /\ Len(output') = n + 1 + e
      /\ \A j \in 1 .. n : output'[j] = output[j]
      /\ output'[n + 1] = pkt.data
      /\ \A j \in 1 .. e : output'[n + 1 + j] = more[j]
  BY <1>1, <1>2, <1>3, <1>7, SMT DEF more
<1>9. n = Consumed /\ Len(output') = Consumed'
  BY DEF Consumed
<1> HIDE DEF n
<1>10. pkt.data = IF sender = "ERROR" THEN Nothing ELSE Consumed + 1
  BY <1>2, <1>3, <1>4, SMT
<1>11. ASSUME NEW m \in Consumed + 1 .. Consumed'
       PROVE  output'[m] = IF sender = "ERROR" THEN Nothing ELSE m
  <2>1. CASE m = Consumed + 1
    BY <1>8, <1>9, <1>10, <2>1
  <2>2. CASE m # Consumed + 1
    <3> DEFINE j == m - (Consumed + 1)
    <3>1. j \in 1 .. e /\ n + 1 + j = m /\ Consumed + 1 + j = m
      BY <1>3, <1>7, <1>8, <1>9, <2>2, SMT
    <3> HIDE DEF j
    <3>2. output'[m] = d(j)
      BY <1>7, <1>8, <3>1
    <3> QED BY <1>5, <3>1, <3>2
  <2> QED BY <2>1, <2>2
<1>12. sender # "ERROR" => Consumed' <= Messages
  <2>1. SUFFICES ASSUME sender # "ERROR" PROVE Consumed' <= Messages
    OBVIOUS
  <2>2. Consumed' \in Consumed + 1 .. Consumed'
    BY <1>3, <1>7, <1>8, <1>9, SMT
  <2>3. output'[Consumed'] = Consumed'
    BY <1>11, <2>1, <2>2
  <2>4. Consumed' \in 1 .. Len(output')
    BY <1>3, <1>7, <1>8, <1>9, SMT
  <2>5. output'[Consumed'] \in 0 .. Messages
    BY <1>8, <2>4, EntriesOf
  <2> QED BY <1>3, <2>3, <2>5, SMT
<1>13. \A m \in 1 .. Consumed : output'[m] = output[m]
  BY <1>8, <1>9
<1>14. Consumed' = Consumed + 1 + e
  BY <1>8, <1>9
<1> QED BY <1>2, <1>5, <1>8, <1>11, <1>12, <1>13, <1>14 DEF e

\* What stays in the ring is as much less ahead as the expected number moves.
LEMMA InOrderKeeps ==
  ASSUME RInv, NEW pkt, ReceiveInOrder(pkt), UNCHANGED senderVars
  PROVE  RInv'
<1> DEFINE e == Early(NFE)
           taken == {Slot(Plus(NFE, j)) : j \in 1 .. e}
<1>1. /\ readpkt(pkt) /\ state = "ESTABLISHED" /\ pkt.seqno = NFE
      /\ pkts' = [s \in Slots |-> IF s \in taken THEN [pkts[s] EXCEPT !.valid = FALSE]
                                                 ELSE pkts[s]]
      /\ NFE' = Plus(NFE, e + 1)
      /\ rmtp_send_ack(NFE')
      /\ UNCHANGED <<state, sender, isn, acked>>
  BY DEF ReceiveInOrder, ReadsData, InOrder, senderVars
<1>2. /\ e \in 0 .. RMTP_MAXWIN - 1
      /\ output' \in Seq(0 .. Messages)
      /\ Consumed' = Consumed + 1 + e
      /\ \A k \in 1 .. Consumed : output'[k] = output[k]
      /\ \A k \in Consumed + 1 .. Consumed' :
           output'[k] = IF sender = "ERROR" THEN Nothing ELSE k
      /\ sender # "ERROR" => Consumed' <= Messages
      /\ sender # "SYN_SENT"
  BY OutputGrows
<1>3. e = RMTP_MAXBUFS \/ ~Holds(Plus(NFE, e + 1))
  BY EarlyStops
<1> HIDE DEF e
<1>4. /\ RMTP_MAXWIN \in Nat /\ RMTP_MAXWIN > 0 /\ RMTP_MAXBUFS = 2 * RMTP_MAXWIN
      /\ SEQ_SPACE \in Nat /\ SEQ_SPACE >= 4 * RMTP_MAXWIN
      /\ Consumed \in Nat /\ acked \in Nat /\ NFE \in Seqnos /\ NFE \in Int /\ isn \in Seqnos
      /\ e \in Int /\ e + 1 \in Int
  BY <1>2, Space, SMT DEF RInv, Typed, TypeOK, Seqnos, Consumed
<1>5. NFE' \in Seqnos
  BY <1>1, <1>4, PlusFacts
<1>6. sender # "ERROR" => NFE' = Number(Consumed' + 1)
  <2>1. SUFFICES ASSUME sender # "ERROR" PROVE NFE' = Number(Consumed' + 1)
    OBVIOUS
  <2>2. NFE = Number(Consumed + 1) /\ Consumed + 1 \in Int
    BY <1>1, <1>4, <2>1, SMT DEF RInv, InStep
  <2>3. NFE' = Number((Consumed + 1) + (e + 1))
    BY <1>1, <1>4, <2>2, SendersPackets
  <2>4. (Consumed + 1) + (e + 1) = Consumed' + 1
    BY <1>2, <1>4, SMT
  <2> QED BY <2>3, <2>4
<1>7. SentInTurn' /\ toReceiver' \subseteq Packets
  BY <1>1, ReadKeeps
<1>8. Typed'
  <2>1. pkts' \in [Slots -> [seqno : Seqnos \cup {-1}, data : 0 .. Messages, valid : BOOLEAN]]
    BY <1>1 DEF RInv, Typed
  <2> HIDE DEF taken
  <2> QED BY <1>1, <1>2, <1>5, <1>7, <2>1 DEF RInv, Typed, TypeOK, Packets
<1>9. RingAhead'
  <2>1. ASSUME NEW s \in Slots, pkts'[s].valid
        PROVE  Ahead(s)'
    <3>1. s \notin taken /\ pkts'[s] = pkts[s]
      BY <1>1, <2>1 DEF RInv, Typed
    <3>2. PICK k \in 1 .. RMTP_MAXWIN - 1 :
            /\ pkts[s].seqno = Plus(NFE, k)
            /\ s = Slot(pkts[s].seqno)
            /\ pkts[s].data = IF sender = "ERROR" THEN Nothing ELSE Consumed + 1 + k
      BY <1>1, <2>1, <3>1 DEF RInv, RingAhead, Ahead
    <3>3. ~ (k <= e)
      <4>1. k <= e => k \in 1 .. e
        BY <1>4, SMT
      <4> QED BY <3>1, <3>2, <4>1
    <3>4. k # e + 1
      <4>1. k = e + 1 => Holds(Plus(NFE, e + 1))
        BY <2>1, <3>1, <3>2 DEF Holds
      <4>2. e # RMTP_MAXBUFS
        BY <1>2, <1>4, SMT
      <4> QED BY <1>3, <4>1, <4>2
    <3> DEFINE m == k - (e + 1)
    <3>5. /\ m \in 1 .. RMTP_MAXWIN - 1 /\ m \in Int
          /\ (e + 1) + m = k /\ Consumed' + 1 + m = Consumed + 1 + k
      BY <1>2, <1>4, <3>3, <3>4, SMT
    <3> HIDE DEF m
    <3>6. pkts[s].seqno = Plus(NFE', m)
      BY <1>1, <1>4, <3>2, <3>5, PlusFacts
    <3> QED BY <1>1, <3>1, <3>2, <3>5, <3>6 DEF Ahead
  <2> QED BY <1>1, <2>1 DEF RingAhead
<1>10. OutputInOrder'
  <2>1. ASSUME NEW k \in 1 .. Consumed'
        PROVE  output'[k] = IF sender' = "ERROR" THEN Nothing ELSE k
    <3>1. k \in 1 .. Consumed \/ k \in Consumed + 1 .. Consumed'
      BY <1>2, <1>4, SMT
    <3> QED BY <1>1, <1>2, <3>1 DEF RInv, OutputInOrder
  <2> QED BY <2>1 DEF OutputInOrder
<1>11. AcksInTurn'
  <2>1. SUFFICES ASSUME sender # "ERROR" PROVE AcksInTurn'
    BY <1>1 DEF AcksInTurn
  <2>2. \A p \in toSender' : p \in toSender \/ p = Ack(Number(Consumed' + 1))
    BY <1>1, <1>6, <2>1, InFlight DEF rmtp_send_ack
  <2>3. Consumed' \in 0 .. Consumed' /\ \A n \in 0 .. Consumed : n \in 0 .. Consumed'
    BY <1>2, <1>4, SMT
  <2>4. \A p \in toSender : \E n \in 0 .. Consumed : p = Ack(Number(n + 1))
    BY <1>1, <2>1 DEF RInv, AcksInTurn
  <2>5. \A p \in toSender' : \E n \in 0 .. Consumed' : p = Ack(Number(n + 1))
    BY <2>2, <2>3, <2>4
  <2> QED BY <1>1, <2>5 DEF AcksInTurn, Number, Ack
<1>12. InStep'
  <2>1. sender # "ERROR" => acked <= Consumed'
    BY <1>2, <1>4, SMT DEF RInv, InStep
  <2> QED BY <1>1, <1>2, <1>6, <2>1 DEF RInv, InStep, Number
<1> QED BY <1>7, <1>8, <1>9, <1>10, <1>11, <1>12 DEF RInv

\* Every step of the receiver keeps the invariant.
LEMMA ReceiverKeeps ==
  ASSUME RInv, Receiver
  PROVE  RInv'
<1>1. PICK pkt \in toReceiver : rmtp_recv(pkt)
  BY DEF Receiver
<1>2. UNCHANGED senderVars
  BY DEF Receiver
<1>3. CASE ReceiveSyn(pkt)
  BY <1>2, <1>3, SynKeeps
<1>4. CASE Reset(pkt)
  BY <1>2, <1>4, ResetKeeps
<1>5. CASE ReceiveFin(pkt)
  BY <1>2, <1>5, ReceiveFinKeeps
<1>6. CASE ReceiveOutside(pkt)
  BY <1>2, <1>6, OutsideKeeps
<1>7. CASE ReceiveInOrder(pkt)
  BY <1>2, <1>7, InOrderKeeps
<1>8. CASE ReceiveEarly(pkt)
  BY <1>2, <1>8, EarlyKeeps
<1> QED BY <1>1, <1>3, <1>4, <1>5, <1>6, <1>7, <1>8 DEF rmtp_recv

\* The invariant holds in every state.
THEOREM RmtpInvariance == Spec => []RInv
<1>1. Init => RInv
  BY InitRmtp
<1>2. RInv /\ [Next]_vars => RInv'
  <2>1. SUFFICES ASSUME RInv, [Next]_vars PROVE RInv'
    OBVIOUS
  <2>2. CASE Sender
    BY <2>1, <2>2, SenderKeeps
  <2>3. CASE Receiver
    BY <2>1, <2>3, ReceiverKeeps
  <2>4. CASE UNCHANGED vars
    <3>1. UNCHANGED <<state, NFE, pkts, output, sender, isn, acked, toReceiver, toSender>>
      BY <2>4 DEF vars, receiverVars, senderVars
    <3>2. UNCHANGED Consumed
      BY <3>1 DEF Consumed
    <3>3. Typed'
      BY <2>1, <3>1 DEF RInv, Typed, TypeOK, Packets
    <3>4. RingAhead' /\ OutputInOrder' /\ AcksInTurn'
      BY <2>1, <3>1, <3>2 DEF RInv, RingAhead, Ahead, OutputInOrder, AcksInTurn, Number
    <3>5. SentInTurn'
      BY <2>1, <3>1 DEF RInv, SentInTurn, Syn, Fin, Dat, Rst, Number
    <3>6. InStep'
      BY <2>1, <3>1, <3>2 DEF RInv, InStep, Number
    <3> QED BY <3>3, <3>4, <3>5, <3>6 DEF RInv
  <2> QED BY <2>1, <2>2, <2>3, <2>4 DEF Next
<1> QED BY <1>1, <1>2, PTL DEF Spec

-----------------------------------------------------------------------------
(***************************************************************************)
(* What the runs check, for every value of the constants.                  *)
(***************************************************************************)
\* The variables keep their types, the numbers of the ring included.
THEOREM RmtpTypes == Spec => []TypeOK
<1>1. RInv => TypeOK
  BY DEF RInv, Typed
<1> QED BY <1>1, RmtpInvariance, PTL

\* "RMTP ensures that messages are delivered in sequence" (receiver.c:49): the
\* output is the messages from the first on, however the path reorders, repeats
\* and loses packets, and wherever the numbers wrap.
THEOREM InSequence == Spec => []DeliveredInSequence
<1>1. RInv => DeliveredInSequence
  BY DEF RInv, Typed, OutputInOrder, DeliveredInSequence, Consumed
<1> QED BY <1>1, RmtpInvariance, PTL

\* The number of an ACK never claims a message that was not consumed.
THEOREM AcksTrue == Spec => []AcksTellTheTruth
<1>1. RInv => AcksTellTheTruth
  BY DEF RInv, AcksInTurn, InStep, AcksTellTheTruth, Consumed, Ack
<1> QED BY <1>1, RmtpInvariance, PTL

\* What the ring holds is ahead of the expected number by less than the window,
\* so that a ring of twice the window never mixes two packets up.
THEOREM RingEnough == Spec => []RingIsAhead
<1>1. RInv => RingIsAhead
  BY DEF RInv, RingAhead, Ahead, RingIsAhead, Consumed
<1> QED BY <1>1, RmtpInvariance, PTL

\* The unsigned comparison lets in every message that the sender's window has
\* and that was not consumed.
THEOREM NewIsTaken == Spec => []NothingNewIsTurnedAway
<1>1. RInv => NothingNewIsTurnedAway
  <2>1. SUFFICES ASSUME RInv, state = "ESTABLISHED", sender = "ESTABLISHED",
                        NEW n \in acked + 1 .. acked + RMTP_MAXWIN, n > Len(output)
                 PROVE  InFeasibleWindow(Number(n))
    BY DEF NothingNewIsTurnedAway
  <2>2. /\ RMTP_MAXWIN \in Nat /\ acked \in Nat /\ Consumed \in Nat
        /\ acked <= Consumed /\ NFE \in Seqnos /\ isn \in Seqnos
        /\ NFE = Number(Consumed + 1) /\ n > Consumed
    BY <2>1, Space, SMT DEF RInv, Typed, TypeOK, InStep, Consumed
  <2> DEFINE k == n - (Consumed + 1)
  <2>3. /\ k \in 0 .. RMTP_MAXWIN - 1 /\ k \in Int /\ Consumed + 1 \in Int /\ n \in Int
        /\ (Consumed + 1) + k = n
    BY <2>2, SMT
  <2> HIDE DEF k
  <2>4. Number(n) = Plus(NFE, k) /\ Number(n) \in Seqnos
    BY <2>2, <2>3, SendersPackets
  <2> QED BY <2>2, <2>3, <2>4, FeasibleSteps
<1> QED BY <1>1, RmtpInvariance, PTL

\* A sender that keeps the protocol is never reset.
THEOREM ResetProvoked == Spec => []ResetIsProvoked
<1>1. RInv => ResetIsProvoked
  BY DEF RInv, InStep, ResetIsProvoked
<1> QED BY <1>1, RmtpInvariance, PTL

-----------------------------------------------------------------------------
(***************************************************************************)
(* The promise of RdpDelivery: what it calls stored is the messages that   *)
(* were consumed.                                                          *)
(***************************************************************************)
Stored == {output[k] : k \in DOMAIN output} \ {Nothing}

StoredIsConsumed == Stored = IF sender = "ERROR" THEN {} ELSE 1 .. Consumed

\* The entries of the output, as a set.
LEMMA StoredIs == RInv => StoredIsConsumed
<1> SUFFICES ASSUME RInv PROVE StoredIsConsumed
  OBVIOUS
<1>1. /\ DOMAIN output = 1 .. Consumed /\ Consumed \in Nat
      /\ \A k \in 1 .. Consumed : output[k] = IF sender = "ERROR" THEN Nothing ELSE k
  BY SMT DEF RInv, Typed, OutputInOrder, Consumed
<1>2. CASE sender = "ERROR"
  BY <1>1, <1>2 DEF Stored, StoredIsConsumed
<1>3. CASE sender # "ERROR"
  <2>1. {output[k] : k \in DOMAIN output} = 1 .. Consumed
    BY <1>1, <1>3
  <2>2. Nothing \notin 1 .. Consumed
    BY <1>1, SMT DEF Nothing
  <2> QED BY <1>3, <2>1, <2>2 DEF Stored, StoredIsConsumed
<1> QED BY <1>2, <1>3

\* A step that consumes nothing, does not end the transfer and moves no acked
\* is no step of the promise.
LEMMA Stutters ==
  ASSUME UNCHANGED <<output, acked>>,
         (state = "TIME_WAIT") <=> (state' = "TIME_WAIT"),
         (sender = "CLOSED") <=> (sender' = "CLOSED")
  PROVE  UNCHANGED Delivery!deliveryVars
BY DEF Delivery!deliveryVars

\* The samples keep the promise of a reliable transfer: acknowledged only when
\* consumed, finished only when all is acknowledged, success only when finished.
THEOREM RmtpImplementsDelivery == Spec => ImplementsDelivery
<1>1. Init => Delivery!Init
  BY DEF Init, ReceiverInit, Delivery!Init
<1>2. RInv /\ RInv' /\ StoredIsConsumed /\ StoredIsConsumed' /\ [Next]_vars => [Delivery!Next]_Delivery!deliveryVars
  <2> SUFFICES ASSUME RInv, RInv', StoredIsConsumed, StoredIsConsumed', [Next]_vars
               PROVE  [Delivery!Next]_Delivery!deliveryVars
    OBVIOUS
  <2>1. /\ acked \in Nat /\ acked <= Messages /\ acked' \in Nat /\ acked' <= Messages
        /\ Consumed \in Nat /\ Consumed' \in Nat /\ Messages \in Nat
        /\ RMTP_MAXWIN \in Nat
        /\ sender # "ERROR" => acked <= Consumed /\ Consumed <= Messages
        /\ sender' # "ERROR" => acked' <= Consumed' /\ Consumed' <= Messages
    BY Space, SMT DEF RInv, Typed, TypeOK, InStep, Consumed
  <2>2. /\ Stored = IF sender = "ERROR" THEN {} ELSE 1 .. Consumed
        /\ Stored' = IF sender' = "ERROR" THEN {} ELSE 1 .. Consumed'
    BY DEF StoredIsConsumed
  <2>3. CASE SendSyn \/ GiveUp \/ SendFin \/ \E n \in 1 .. Messages : SendData(n)
    BY <2>3, Stutters
    DEF SendSyn, GiveUp, SendFin, SendData, Send, receiverVars, senderVars
  <2>4. ASSUME NEW pkt \in toSender, GetSynAck(pkt)
        PROVE  UNCHANGED Delivery!deliveryVars
    BY <2>4, Stutters DEF GetSynAck, GetAck, receiverVars
  <2>5. ASSUME NEW pkt \in toSender, GetDataAck(pkt)
        PROVE  Delivery!Next
    <3>1. /\ sender = "ESTABLISHED" /\ UNCHANGED <<sender, state, output>>
          /\ acked <= acked'
      BY <2>1, <2>5, SMT DEF GetDataAck, GetAck, receiverVars
    <3>2. UNCHANGED <<Stored, Consumed>>
      BY <3>1 DEF Stored, Consumed
    <3>3. /\ 1 .. acked' \subseteq Stored /\ 1 .. acked' \in SUBSET (1 .. Messages)
          /\ 1 .. acked' = (1 .. acked) \cup (1 .. acked')
      BY <2>1, <2>2, <3>1, <3>2, SMT
    <3>4. Delivery!Acknowledge(1 .. acked')
      BY <3>1, <3>2, <3>3 DEF Delivery!Acknowledge, Stored
    <3> QED BY <3>3, <3>4 DEF Delivery!Next
  <2>6. ASSUME NEW pkt \in toSender, GetFinAck(pkt)
        PROVE  Delivery!Next
    <3>1. /\ sender = "FIN_WAIT" /\ sender' = "CLOSED" /\ UNCHANGED <<acked, state, output>>
      BY <2>6 DEF GetFinAck, GetAck, receiverVars
    <3>2. state = "TIME_WAIT"
      BY <3>1 DEF RInv, InStep
    <3>3. Delivery!Succeed
      BY <3>1, <3>2 DEF Delivery!Succeed
    <3> QED BY <3>3 DEF Delivery!Next
  <2>7. ASSUME NEW pkt \in toReceiver, UNCHANGED senderVars,
               ReceiveSyn(pkt) \/ Reset(pkt) \/ ReceiveOutside(pkt) \/ ReceiveEarly(pkt)
        PROVE  UNCHANGED Delivery!deliveryVars
    BY <2>7, Stutters DEF ReceiveSyn, Reset, ReceiveOutside, ReceiveEarly, ReadsData,
                          receiverVars, senderVars
  <2>8. ASSUME NEW pkt \in toReceiver, UNCHANGED senderVars, ReceiveFin(pkt)
        PROVE  Delivery!Next
    <3>1. /\ UNCHANGED <<sender, acked, output>> /\ state' = "TIME_WAIT"
          /\ readpkt(pkt) /\ pkt.type = "FIN"
      BY <2>8 DEF ReceiveFin, senderVars
    <3>2. acked = Messages
      BY <3>1, FinExpected
    <3>3. Delivery!Write
      BY <3>1, <3>2 DEF Delivery!Write
    <3> QED BY <3>3 DEF Delivery!Next
  <2>9. ASSUME NEW pkt \in toReceiver, UNCHANGED senderVars, ReceiveInOrder(pkt)
        PROVE  [Delivery!Next]_Delivery!deliveryVars
    <3>1. /\ UNCHANGED <<sender, acked, state>> /\ state = "ESTABLISHED"
      BY <2>9 DEF ReceiveInOrder, ReadsData, senderVars
    <3>2. Consumed' >= Consumed
      <4>1. Early(NFE) \in 0 .. RMTP_MAXWIN - 1 /\ Consumed' = Consumed + 1 + Early(NFE)
        BY <2>9, OutputGrows
      <4> QED BY <2>1, <4>1, SMT
    <3>3. CASE sender = "ERROR"
      <4>1. UNCHANGED Stored
        BY <2>2, <3>1, <3>3
      <4> QED BY <3>1, <4>1 DEF Delivery!deliveryVars, Stored
    <3>4. CASE sender # "ERROR"
      <4>1. Stored' \in SUBSET (1 .. Messages) /\ Stored' = Stored \cup Stored'
        BY <2>1, <2>2, <3>1, <3>2, <3>4, SMT
      <4>2. PICK D \in SUBSET (1 .. Messages) : D = Stored'
        BY <4>1
      <4>3. Delivery!Store(D)
        BY <3>1, <4>1, <4>2 DEF Delivery!Store, Stored
      <4>4. Delivery!Next
        BY <4>3 DEF Delivery!Next
      <4> QED BY <4>4
    <3> QED BY <3>3, <3>4
  <2>10. CASE UNCHANGED vars
    BY <2>10, Stutters DEF vars, receiverVars, senderVars
  <2>11. CASE Sender
    BY <2>3, <2>4, <2>5, <2>6, <2>11 DEF Sender
  <2>12. CASE Receiver
    <3>1. PICK pkt \in toReceiver : rmtp_recv(pkt)
      BY <2>12 DEF Receiver
    <3>2. UNCHANGED senderVars
      BY <2>12 DEF Receiver
    <3>3. \/ ReceiveSyn(pkt) \/ Reset(pkt) \/ ReceiveOutside(pkt) \/ ReceiveEarly(pkt)
          \/ ReceiveFin(pkt)
          \/ ReceiveInOrder(pkt)
      BY <3>1 DEF rmtp_recv
    <3>4. CASE ReceiveFin(pkt)
      <4>1. Delivery!Next
        BY <2>8, <3>2, <3>4
      <4> QED BY <4>1
    <3>5. CASE ReceiveInOrder(pkt)
      BY <2>9, <3>2, <3>5
    <3>6. CASE ReceiveSyn(pkt) \/ Reset(pkt) \/ ReceiveOutside(pkt) \/ ReceiveEarly(pkt)
      <4>1. UNCHANGED Delivery!deliveryVars
        BY <2>7, <3>2, <3>6
      <4> QED BY <4>1
    <3> QED BY <3>3, <3>4, <3>5, <3>6
  <2> QED BY <2>10, <2>11, <2>12 DEF Next
<1> QED BY <1>1, <1>2, StoredIs, RmtpInvariance, PTL DEF Spec, ImplementsDelivery, Delivery!Spec
=============================================================================
