------------------------- MODULE PagingQueueProofs -------------------------
(***************************************************************************)
(* The linked list of ipt.c is a queue: it holds the resident pages once   *)
(* each, and every step of the kernel on it is a step of FrameQueue.  With *)
(* that list, frame allocation serves every request: the kernel does not   *)
(* go out of control.                                                      *)
(***************************************************************************)
EXTENDS PagingTableProofs, PagingFIFO, WellFoundedInduction

USE DEF frameVars, tableVars, dataVars, storeVars, procVars

-----------------------------------------------------------------------------
(* Lists. *)

\* Element i of s, or EMPTY beyond its ends.
El(s, i) == IF i \in 1 .. Len(s) THEN s[i] ELSE EMPTY

\* flistHead, flistTail and the links of t describe the list s.
Chain(t, s) ==
  /\ s \in Seq(Frames)
  /\ \A i, j \in 1 .. Len(s) : s[i] = s[j] => i = j
  /\ t.flistHead = El(s, 1) /\ t.flistTail = El(s, Len(s))
  /\ \A i \in 1 .. Len(s) : /\ t.ipt[s[i]].nextFrame = El(s, i + 1)
                            /\ t.ipt[s[i]].prevFrame = El(s, i - 1)
In(f, s) == \E i \in 1 .. Len(s) : s[i] = f

\* What the four assignments to links, head and tail leave behind.
LEMMA NextEffect ==
  ASSUME NEW t \in FT, NEW x, NEW g
  PROVE  LET u == SetNext(t, x, g)
         IN  /\ u.flistHead = t.flistHead /\ u.flistTail = t.flistTail
             /\ \A f \in Frames : /\ u.ipt[f].nextFrame = IF f = x THEN g ELSE t.ipt[f].nextFrame
                                  /\ u.ipt[f].prevFrame = t.ipt[f].prevFrame
BY DEF FT, FrameRec, SetNext

\* The same for a link back.
LEMMA PrevEffect ==
  ASSUME NEW t \in FT, NEW x, NEW g
  PROVE  LET u == SetPrev(t, x, g)
         IN  /\ u.flistHead = t.flistHead /\ u.flistTail = t.flistTail
             /\ \A f \in Frames : /\ u.ipt[f].prevFrame = IF f = x THEN g ELSE t.ipt[f].prevFrame
                                  /\ u.ipt[f].nextFrame = t.ipt[f].nextFrame
BY DEF FT, FrameRec, SetPrev

\* The same for the head and the tail.
LEMMA EndEffect ==
  ASSUME NEW t \in FT, NEW g
  PROVE  /\ SetHead(t, g).flistHead = g /\ SetHead(t, g).flistTail = t.flistTail
         /\ SetTail(t, g).flistTail = g /\ SetTail(t, g).flistHead = t.flistHead
         /\ SetHead(t, g).ipt = t.ipt /\ SetTail(t, g).ipt = t.ipt
BY DEF FT, SetHead, SetTail

\* What freeFrameFIFO does in its four cases.
LEMMA UnlinkEffect ==
  ASSUME NEW t \in FT, NEW fr \in Frames
  PROVE  LET u == freeFrameFIFO(t, fr)
             prev == t.ipt[fr].prevFrame
             next == t.ipt[fr].nextFrame
             first == fr = t.flistHead
             last == fr = t.flistTail
         IN  /\ u.flistHead = IF ~first THEN t.flistHead ELSE IF last THEN EMPTY ELSE next
             /\ u.flistTail = IF ~last THEN t.flistTail ELSE IF first THEN EMPTY ELSE prev
             /\ \A f \in Frames :
                  /\ u.ipt[f].nextFrame = IF ~first /\ f = prev THEN IF last THEN EMPTY ELSE next
                                          ELSE t.ipt[f].nextFrame
                  /\ u.ipt[f].prevFrame = IF ~last /\ f = next THEN IF first THEN EMPTY ELSE prev
                                          ELSE t.ipt[f].prevFrame
<1> DEFINE u == freeFrameFIFO(t, fr)
           prev == t.ipt[fr].prevFrame
           next == t.ipt[fr].nextFrame
<1>0. EMPTY \in FrameOpt /\ prev \in FrameOpt /\ next \in FrameOpt
  BY LinksOf DEF FrameOpt
<1>1. CASE fr = t.flistHead /\ fr = t.flistTail
  <2> DEFINE x == SetTail(t, EMPTY)
  <2>1. u = SetHead(x, EMPTY)
    BY <1>1 DEF freeFrameFIFO
  <2>2. x \in FT
    BY <1>0, LinkType
  <2>3. x.ipt = t.ipt /\ x.flistTail = EMPTY
    BY EndEffect
  <2> HIDE DEF x
  <2>4. u.ipt = t.ipt /\ u.flistTail = EMPTY /\ u.flistHead = EMPTY
    BY <2>1, <2>2, <2>3, EndEffect
  <2> QED BY <1>1, <2>4
<1>2. CASE fr = t.flistHead /\ fr # t.flistTail
  <2> DEFINE x == SetPrev(t, next, EMPTY)
  <2>1. u = SetHead(x, next)
    BY <1>2 DEF freeFrameFIFO
  <2>2. x \in FT
    BY <1>0, LinkType
  <2>3. /\ x.flistTail = t.flistTail
        /\ \A f \in Frames : /\ x.ipt[f].prevFrame = IF f = next THEN EMPTY ELSE t.ipt[f].prevFrame
                             /\ x.ipt[f].nextFrame = t.ipt[f].nextFrame
    BY PrevEffect
  <2> HIDE DEF x
  <2>4. u.ipt = x.ipt /\ u.flistTail = t.flistTail /\ u.flistHead = next
    BY <2>1, <2>2, <2>3, EndEffect
  <2> QED BY <1>2, <2>3, <2>4
<1>3. CASE fr # t.flistHead /\ fr = t.flistTail
  <2> DEFINE x == SetNext(t, prev, EMPTY)
  <2>1. u = SetTail(x, prev)
    BY <1>3 DEF freeFrameFIFO
  <2>2. x \in FT
    BY <1>0, LinkType
  <2>3. /\ x.flistHead = t.flistHead
        /\ \A f \in Frames : /\ x.ipt[f].nextFrame = IF f = prev THEN EMPTY ELSE t.ipt[f].nextFrame
                             /\ x.ipt[f].prevFrame = t.ipt[f].prevFrame
    BY NextEffect
  <2> HIDE DEF x
  <2>4. u.ipt = x.ipt /\ u.flistHead = t.flistHead /\ u.flistTail = prev
    BY <2>1, <2>2, <2>3, EndEffect
  <2> QED BY <1>3, <2>3, <2>4
<1>4. CASE fr # t.flistHead /\ fr # t.flistTail
  <2> DEFINE x == SetNext(t, prev, next)
  <2>1. u = SetPrev(x, next, prev)
    BY <1>4 DEF freeFrameFIFO
  <2>2. x \in FT
    BY <1>0, LinkType
  <2>3. /\ x.flistHead = t.flistHead /\ x.flistTail = t.flistTail
        /\ \A f \in Frames : /\ x.ipt[f].nextFrame = IF f = prev THEN next ELSE t.ipt[f].nextFrame
                             /\ x.ipt[f].prevFrame = t.ipt[f].prevFrame
    BY NextEffect
  <2> HIDE DEF x
  <2>4. /\ u.flistHead = x.flistHead /\ u.flistTail = x.flistTail
        /\ \A f \in Frames : /\ u.ipt[f].prevFrame = IF f = next THEN prev ELSE x.ipt[f].prevFrame
                             /\ u.ipt[f].nextFrame = x.ipt[f].nextFrame
    BY <2>1, <2>2, PrevEffect
  <2> QED BY <1>4, <2>3, <2>4
<1> QED BY <1>1, <1>2, <1>3, <1>4

\* What pickFrameFIFO does when there is a tail.
LEMMA PickEffect ==
  ASSUME NEW t \in FT, t.flistTail # EMPTY
  PROVE  LET u == pickFrameFIFO(t)
             prev == t.ipt[t.flistTail].prevFrame
             only == t.flistTail = t.flistHead
         IN  /\ u.flistHead = IF only THEN EMPTY ELSE t.flistHead
             /\ u.flistTail = IF only THEN EMPTY ELSE prev
             /\ \A f \in Frames :
                  /\ u.ipt[f].nextFrame = IF ~only /\ f = prev THEN EMPTY ELSE t.ipt[f].nextFrame
                  /\ u.ipt[f].prevFrame = t.ipt[f].prevFrame
<1> DEFINE u == pickFrameFIFO(t)
           prev == t.ipt[t.flistTail].prevFrame
<1>0. EMPTY \in FrameOpt /\ t.flistTail \in Frames /\ prev \in FrameOpt
  BY LinksOf DEF FrameOpt
<1>1. CASE t.flistTail = t.flistHead
  <2> DEFINE x == SetTail(t, EMPTY)
  <2>1. u = SetHead(x, EMPTY)
    BY <1>1 DEF pickFrameFIFO
  <2>2. x \in FT
    BY <1>0, LinkType
  <2>3. x.ipt = t.ipt /\ x.flistTail = EMPTY
    BY EndEffect
  <2> HIDE DEF x
  <2>4. u.ipt = t.ipt /\ u.flistTail = EMPTY /\ u.flistHead = EMPTY
    BY <2>1, <2>2, <2>3, EndEffect
  <2> QED BY <1>1, <2>4
<1>2. CASE t.flistTail # t.flistHead
  <2> DEFINE x == SetTail(t, prev)
  <2>1. u = SetNext(x, prev, EMPTY)
    BY <1>2 DEF pickFrameFIFO
  <2>2. x \in FT
    BY <1>0, LinkType
  <2>3. x.ipt = t.ipt /\ x.flistTail = prev /\ x.flistHead = t.flistHead
    BY EndEffect
  <2> HIDE DEF x
  <2>4. /\ u.flistHead = x.flistHead /\ u.flistTail = x.flistTail
        /\ \A f \in Frames : /\ u.ipt[f].nextFrame = IF f = prev THEN EMPTY ELSE x.ipt[f].nextFrame
                             /\ u.ipt[f].prevFrame = x.ipt[f].prevFrame
    BY <2>1, <2>2, NextEffect
  <2> QED BY <1>2, <2>3, <2>4
<1> QED BY <1>1, <1>2

\* What init_frame does to the list: a page enters it at the head under FIFO, and the
\* entry of any other frame has no links.
LEMMA EnterEffect ==
  ASSUME NEW t \in FT, NEW policy, NEW fr \in Frames, NEW type \in Statuses,
         NEW pid \in PidOpt, NEW vpn \in VpnOpt
  PROVE  LET u == init_frame(t, policy, fr, type, pid, vpn)
             enters == type = "PAGE" /\ policy = "FIFO"
             none == t.flistHead = EMPTY /\ t.flistTail = EMPTY
         IN  /\ u.flistHead = IF enters THEN fr ELSE t.flistHead
             /\ u.flistTail = IF enters /\ none THEN fr ELSE t.flistTail
             /\ \A f \in Frames : f # fr =>
                  /\ u.ipt[f].nextFrame = t.ipt[f].nextFrame
                  /\ u.ipt[f].prevFrame = IF enters /\ ~none /\ f = t.flistHead THEN fr
                                          ELSE t.ipt[f].prevFrame
             /\ t.flistHead # fr => /\ u.ipt[fr].nextFrame = IF enters /\ ~none THEN t.flistHead ELSE EMPTY
                                    /\ u.ipt[fr].prevFrame = EMPTY
<1> DEFINE e == [Cleared EXCEPT !.status = type, !.pid = pid, !.vpn = vpn]
           w == [t EXCEPT !.ipt[fr] = e]
           u == init_frame(t, policy, fr, type, pid, vpn)
<1>1. e \in FrameRec /\ e.nextFrame = EMPTY /\ e.prevFrame = EMPTY
  BY ClearedType DEF FrameRec, PidOpt, VpnOpt, Cleared
<1> HIDE DEF e
<1>2. /\ w \in FT /\ w.ipt[fr] = e /\ \A f \in Frames : f # fr => w.ipt[f] = t.ipt[f]
      /\ w.flistHead = t.flistHead /\ w.flistTail = t.flistTail
  BY <1>1 DEF FT
<1>3. u = IF type = "PAGE" /\ policy = "FIFO" THEN init_frame_FIFO(w, fr) ELSE w
  BY DEF init_frame, e
<1> HIDE DEF w, u
<1>4. fr \in FrameOpt /\ w.flistHead \in FrameOpt
  BY <1>2, LinksOf DEF FrameOpt
<1>5. CASE ~(type = "PAGE" /\ policy = "FIFO")
  BY <1>1, <1>2, <1>3, <1>5 DEF u
<1>6. CASE type = "PAGE" /\ policy = "FIFO" /\ t.flistHead = EMPTY /\ t.flistTail = EMPTY
  <2> DEFINE x == SetTail(w, fr)
  <2>1. u = SetHead(x, fr)
    BY <1>2, <1>3, <1>6 DEF init_frame_FIFO
  <2>2. x \in FT
    BY <1>2, <1>4, LinkType
  <2>3. x.ipt = w.ipt /\ x.flistTail = fr
    BY <1>2, EndEffect
  <2> HIDE DEF x
  <2>4. u.ipt = w.ipt /\ u.flistTail = fr /\ u.flistHead = fr
    BY <2>1, <2>2, <2>3, EndEffect
  <2> QED BY <1>1, <1>2, <1>6, <2>4 DEF u
<1>7. CASE type = "PAGE" /\ policy = "FIFO" /\ ~(t.flistHead = EMPTY /\ t.flistTail = EMPTY)
  <2> DEFINE x == SetNext(w, fr, w.flistHead)
             y == SetPrev(x, w.flistHead, fr)
  <2>1. u = SetHead(y, fr)
    BY <1>2, <1>3, <1>7 DEF init_frame_FIFO
  <2>2. x \in FT
    BY <1>2, <1>4, LinkType
  <2>3. /\ x.flistHead = w.flistHead /\ x.flistTail = w.flistTail
        /\ \A f \in Frames : /\ x.ipt[f].nextFrame = IF f = fr THEN w.flistHead ELSE w.ipt[f].nextFrame
                             /\ x.ipt[f].prevFrame = w.ipt[f].prevFrame
    BY <1>2, NextEffect
  <2> HIDE DEF x
  <2>4. y \in FT
    BY <2>2, <1>4, LinkType
  <2>5. /\ y.flistHead = x.flistHead /\ y.flistTail = x.flistTail
        /\ \A f \in Frames : /\ y.ipt[f].prevFrame = IF f = w.flistHead THEN fr ELSE x.ipt[f].prevFrame
                             /\ y.ipt[f].nextFrame = x.ipt[f].nextFrame
    BY <2>2, PrevEffect
  <2> HIDE DEF y
  <2>6. u.ipt = y.ipt /\ u.flistTail = y.flistTail /\ u.flistHead = fr
    BY <2>1, <2>4, EndEffect
  <2> QED BY <1>1, <1>2, <1>7, <2>3, <2>5, <2>6 DEF u
<1> QED BY <1>5, <1>6, <1>7 DEF u

-----------------------------------------------------------------------------
(* Operations on lists. *)

\* No frame has the number EMPTY.
LEMMA EmptyNoFrame == EMPTY \notin Frames
BY SizesAssumption DEF EMPTY, Frames

\* The elements of a list.
LEMMA ChainElements ==
  ASSUME NEW t, NEW s, Chain(t, s)
  PROVE  /\ Len(s) \in Nat /\ \A i \in 1 .. Len(s) : s[i] \in Frames /\ s[i] # EMPTY /\ In(s[i], s)
         /\ Len(s) = 0 <=> t.flistHead = EMPTY
         /\ Len(s) = 0 <=> t.flistTail = EMPTY
         /\ Len(s) > 0 => t.flistHead = s[1] /\ t.flistTail = s[Len(s)]
<1>1. Len(s) \in Nat /\ \A i \in 1 .. Len(s) : s[i] \in Frames /\ s[i] # EMPTY
  BY EmptyNoFrame, LenProperties DEF Chain
<1>2. t.flistHead = El(s, 1) /\ t.flistTail = El(s, Len(s))
  BY DEF Chain
<1>3. Len(s) = 0 => El(s, 1) = EMPTY /\ El(s, Len(s)) = EMPTY
  BY DEF El
<1>4. Len(s) > 0 => 1 \in 1 .. Len(s) /\ Len(s) \in 1 .. Len(s) /\ El(s, 1) = s[1] /\ El(s, Len(s)) = s[Len(s)]
  BY <1>1 DEF El
<1> QED BY <1>1, <1>2, <1>3, <1>4 DEF In

\* What changes other entries leaves a list alone.
LEMMA ChainSame ==
  ASSUME NEW t, NEW u, NEW s, Chain(t, s),
         u.flistHead = t.flistHead, u.flistTail = t.flistTail,
         \A i \in 1 .. Len(s) : /\ u.ipt[s[i]].nextFrame = t.ipt[s[i]].nextFrame
                                /\ u.ipt[s[i]].prevFrame = t.ipt[s[i]].prevFrame
  PROVE  Chain(u, s)
BY DEF Chain

\* An element in front of a sequence.
LEMMA Prepended ==
  ASSUME NEW s \in Seq(Frames), NEW f \in Frames
  PROVE  LET r == <<f>> \o s
         IN  /\ r \in Seq(Frames) /\ Len(r) = Len(s) + 1 /\ r[1] = f
             /\ \A i \in 1 .. Len(s) : r[i + 1] = s[i]
             /\ \A i \in 2 .. Len(s) + 1 : r[i] = s[i - 1]
             /\ El(r, 1) = f /\ \A i \in Nat \ {0} : El(r, i + 1) = El(s, i)
<1> DEFINE r == <<f>> \o s
<1>1. Len(s) \in Nat /\ <<f>> \in Seq(Frames) /\ Len(<<f>>) = 1 /\ <<f>>[1] = f
  BY LenProperties
<1>2. /\ r \in Seq(Frames) /\ Len(r) = Len(<<f>>) + Len(s)
      /\ \A i \in 1 .. Len(<<f>>) + Len(s) : r[i] = IF i <= Len(<<f>>) THEN <<f>>[i] ELSE s[i - Len(<<f>>)]
  BY <1>1, ConcatProperties
<1> HIDE DEF r
<1>3. Len(r) = Len(s) + 1 /\ \A i \in 1 .. Len(s) + 1 : r[i] = IF i <= 1 THEN <<f>>[i] ELSE s[i - 1]
  BY <1>1, <1>2
<1>4. r[1] = f /\ \A i \in 2 .. Len(s) + 1 : r[i] = s[i - 1]
  BY <1>1, <1>3
<1>5. \A i \in 1 .. Len(s) : i + 1 \in 2 .. Len(s) + 1 /\ (i + 1) - 1 = i
  BY <1>1
<1>6. \A i \in 1 .. Len(s) : r[i + 1] = s[i]
  BY <1>4, <1>5
<1>7. El(r, 1) = f /\ \A i \in Nat \ {0} : El(r, i + 1) = El(s, i)
  BY <1>1, <1>3, <1>4, <1>6 DEF El
<1> QED BY <1>2, <1>3, <1>4, <1>6, <1>7 DEF r

\* A page enters the list at its head.
LEMMA ChainEnter ==
  ASSUME NEW t \in FT, NEW s, Chain(t, s), NEW fr \in Frames, ~In(fr, s),
         NEW pid \in PidOpt, NEW vpn \in VpnOpt
  PROVE  Chain(init_frame(t, "FIFO", fr, "PAGE", pid, vpn), <<fr>> \o s)
<1> DEFINE u == init_frame(t, "FIFO", fr, "PAGE", pid, vpn)
           r == <<fr>> \o s
           none == t.flistHead = EMPTY /\ t.flistTail = EMPTY
<1>1. s \in Seq(Frames) /\ Len(s) \in Nat
  BY LenProperties DEF Chain
<1>2. /\ r \in Seq(Frames) /\ Len(r) = Len(s) + 1 /\ r[1] = fr
      /\ \A i \in 1 .. Len(s) : r[i + 1] = s[i]
      /\ \A i \in 2 .. Len(s) + 1 : r[i] = s[i - 1]
      /\ El(r, 1) = fr /\ \A i \in Nat \ {0} : El(r, i + 1) = El(s, i)
  BY <1>1, Prepended
<1>3. /\ \A i \in 1 .. Len(s) : s[i] \in Frames /\ s[i] # EMPTY /\ s[i] # fr
      /\ Len(s) = 0 <=> t.flistHead = EMPTY
      /\ Len(s) = 0 <=> none
      /\ Len(s) > 0 => t.flistHead = s[1] /\ t.flistTail = s[Len(s)]
  BY ChainElements DEF In
<1>4. t.flistHead # fr
  <2>1. Len(s) > 0 => 1 \in 1 .. Len(s)
    BY <1>1
  <2> QED BY <1>1, <1>3, <2>1, EmptyNoFrame
<1>5. "PAGE" \in Statuses
  BY DEF Statuses
<1>6. /\ u.flistHead = fr
      /\ u.flistTail = IF none THEN fr ELSE t.flistTail
      /\ \A f \in Frames : f # fr =>
           /\ u.ipt[f].nextFrame = t.ipt[f].nextFrame
           /\ u.ipt[f].prevFrame = IF ~none /\ f = t.flistHead THEN fr ELSE t.ipt[f].prevFrame
      /\ u.ipt[fr].nextFrame = IF ~none THEN t.flistHead ELSE EMPTY
      /\ u.ipt[fr].prevFrame = EMPTY
  BY <1>4, <1>5, EnterEffect
<1> HIDE DEF u, r
<1>7. \A i, j \in 1 .. Len(s) : s[i] = s[j] => i = j
  BY DEF Chain
<1>8. ASSUME NEW i \in 1 .. Len(r), NEW j \in 1 .. Len(r), r[i] = r[j] PROVE i = j
  <2>1. \A k \in 1 .. Len(r) : k # 1 => k \in 2 .. Len(s) + 1 /\ k - 1 \in 1 .. Len(s)
    BY <1>1, <1>2
  <2>2. CASE i = 1
    BY <1>2, <1>3, <1>8, <2>1, <2>2
  <2>3. CASE j = 1
    BY <1>2, <1>3, <1>8, <2>1, <2>3
  <2>4. CASE i # 1 /\ j # 1
    <3>1. s[i - 1] = s[j - 1]
      BY <1>2, <1>8, <2>1, <2>4
    <3>2. i - 1 = j - 1
      BY <1>7, <2>1, <2>4, <3>1
    <3> QED BY <3>2
  <2> QED BY <2>2, <2>3, <2>4
<1>9. u.flistTail = El(r, Len(r))
  <2>1. CASE Len(s) = 0
    BY <1>2, <1>3, <1>6, <2>1
  <2>2. CASE Len(s) > 0
    <3>1. Len(s) \in Nat \ {0} /\ Len(s) \in 1 .. Len(s)
      BY <1>1, <2>2
    <3>2. El(r, Len(r)) = El(s, Len(s)) /\ El(s, Len(s)) = s[Len(s)]
      BY <1>2, <3>1 DEF El
    <3> QED BY <1>3, <1>6, <2>2, <3>2
  <2> QED BY <1>1, <2>1, <2>2
<1>10. ASSUME NEW i \in 1 .. Len(r)
       PROVE  u.ipt[r[i]].nextFrame = El(r, i + 1) /\ u.ipt[r[i]].prevFrame = El(r, i - 1)
  <2>1. CASE i = 1
    <3>1. El(r, 1 + 1) = El(s, 1) /\ El(s, 1) = t.flistHead
      BY <1>2 DEF Chain
    <3>2. El(r, 1 - 1) = EMPTY
      BY DEF El
    <3>3. ~none \/ t.flistHead = EMPTY
      BY <1>3
    <3> QED BY <1>2, <1>6, <2>1, <3>1, <3>2, <3>3
  <2>2. CASE i # 1
    <3> PICK k \in 1 .. Len(s) : i = k + 1
      <4>1. i - 1 \in 1 .. Len(s) /\ i = (i - 1) + 1
        BY <1>1, <1>2, <2>2
      <4> QED BY <4>1
    <3>0. r[k + 1] = s[k]
      BY <1>2
    <3>1. r[i] = s[k] /\ k \in Nat \ {0} /\ k + 1 \in Nat \ {0}
      BY <3>0
    <3>2. El(r, i + 1) = El(s, k + 1)
      BY <1>2, <3>1
    <3>3. t.ipt[s[k]].nextFrame = El(s, k + 1) /\ t.ipt[s[k]].prevFrame = El(s, k - 1)
      BY DEF Chain
    <3>4. s[k] \in Frames /\ s[k] # fr
      BY <1>3
    <3>5. CASE k = 1
      <4>1. s[k] = t.flistHead /\ ~none /\ El(r, i - 1) = fr
        BY <1>1, <1>2, <1>3, <3>5
      <4> QED BY <1>6, <3>1, <3>2, <3>3, <3>4, <4>1
    <3>6. CASE k # 1
      <4>1. s[k] # t.flistHead
        BY <1>1, <1>3, <1>7, <3>6
      <4>2. k - 1 \in Nat \ {0} /\ i - 1 = (k - 1) + 1
        BY <3>6
      <4>3. El(r, i - 1) = El(s, k - 1)
        BY <1>2, <4>2
      <4> QED BY <1>6, <3>1, <3>2, <3>3, <3>4, <4>1, <4>3
    <3> QED BY <3>5, <3>6
  <2> QED BY <2>1, <2>2
<1> QED BY <1>2, <1>6, <1>8, <1>9, <1>10 DEF Chain, u, r

\* The tail of the list is taken out.
LEMMA ChainPick ==
  ASSUME NEW t \in FT, NEW s, Chain(t, s), t.flistTail # EMPTY
  PROVE  /\ Len(s) > 0 /\ t.flistTail = s[Len(s)]
         /\ Chain(pickFrameFIFO(t), SubSeq(s, 1, Len(s) - 1))
<1> DEFINE u == pickFrameFIFO(t)
           n == Len(s)
           r == SubSeq(s, 1, n - 1)
           only == t.flistTail = t.flistHead
           prev == t.ipt[t.flistTail].prevFrame
<1>1. s \in Seq(Frames) /\ n \in Nat
  BY LenProperties DEF Chain
<1>2. /\ n > 0 /\ t.flistTail = s[n] /\ t.flistHead = s[1] /\ n \in 1 .. n /\ 1 \in 1 .. n
      /\ \A i \in 1 .. n : s[i] \in Frames /\ s[i] # EMPTY
  BY <1>1, ChainElements
<1>3. /\ r \in Seq(Frames) /\ Len(r) = n - 1 /\ \A i \in 1 .. n - 1 : r[i] = s[i]
  <2>1. \A i \in 1 .. n - 1 : s[i] \in Frames
    BY <1>1, <1>2
  <2>2. /\ r \in Seq(Frames) /\ Len(r) = IF 1 <= n - 1 THEN (n - 1) - 1 + 1 ELSE 0
        /\ \A i \in 1 .. (n - 1) - 1 + 1 : r[i] = s[1 + i - 1]
    BY <1>1, <1>2, <2>1, SubSeqProperties
  <2> HIDE DEF r, n
  <2>3. Len(r) = n - 1 /\ \A i \in 1 .. n - 1 : i \in 1 .. (n - 1) - 1 + 1 /\ 1 + i - 1 = i
    BY <1>1, <1>2, <2>2
  <2> QED BY <2>2, <2>3
<1>4. /\ u.flistHead = IF only THEN EMPTY ELSE t.flistHead
      /\ u.flistTail = IF only THEN EMPTY ELSE prev
      /\ \A f \in Frames :
           /\ u.ipt[f].nextFrame = IF ~only /\ f = prev THEN EMPTY ELSE t.ipt[f].nextFrame
           /\ u.ipt[f].prevFrame = t.ipt[f].prevFrame
  BY PickEffect
<1>5. /\ \A i, j \in 1 .. n : s[i] = s[j] => i = j
      /\ \A i \in 1 .. n : /\ t.ipt[s[i]].nextFrame = El(s, i + 1)
                           /\ t.ipt[s[i]].prevFrame = El(s, i - 1)
  BY DEF Chain
<1>6. prev = El(s, n - 1) /\ (only <=> n = 1)
  BY <1>2, <1>5
<1> HIDE DEF u, r, n, prev
<1>7. /\ \A i \in 1 .. n - 1 : i \in 1 .. n /\ El(r, i) = s[i] /\ El(s, i) = s[i]
      /\ El(r, 0) = EMPTY /\ El(s, 0) = EMPTY /\ El(r, n) = EMPTY
  BY <1>1, <1>2, <1>3 DEF El, n
<1>8. CASE n = 1
  BY <1>2, <1>3, <1>4, <1>6, <1>8 DEF Chain, El, u, r, n
<1>9. CASE n # 1
  <2>1. n - 1 \in 1 .. n - 1 /\ 1 \in 1 .. n - 1
    BY <1>1, <1>2, <1>9
  <2>2. u.flistHead = El(r, 1) /\ u.flistTail = El(r, Len(r))
    BY <1>2, <1>3, <1>4, <1>6, <1>7, <1>9, <2>1
  <2>3. ASSUME NEW i \in 1 .. n - 1
        PROVE  u.ipt[r[i]].nextFrame = El(r, i + 1) /\ u.ipt[r[i]].prevFrame = El(r, i - 1)
    <3>1. r[i] = s[i] /\ i \in 1 .. n /\ s[i] \in Frames /\ i - 1 \in {0} \cup (1 .. n - 1)
      BY <1>1, <1>2, <1>3
    <3>2. El(r, i - 1) = El(s, i - 1)
      BY <1>7, <3>1
    <3>3. u.ipt[r[i]].prevFrame = El(r, i - 1)
      BY <1>4, <1>5, <3>1, <3>2
    <3>4. CASE i = n - 1
      <4>1. s[i] = prev /\ i + 1 = n
        BY <1>1, <1>6, <1>7, <3>4
      <4> QED BY <1>4, <1>6, <1>7, <1>9, <3>1, <3>3, <4>1
    <3>5. CASE i # n - 1
      <4>1. i + 1 \in 1 .. n - 1 /\ n - 1 \in 1 .. n /\ prev = s[n - 1]
        BY <1>1, <1>6, <1>7, <2>1, <3>5
      <4>2. s[i] # prev
        BY <1>5, <3>1, <3>5, <4>1
      <4> QED BY <1>4, <1>5, <1>7, <3>1, <3>3, <4>1, <4>2
    <3> QED BY <3>4, <3>5
  <2>4. \A i, j \in 1 .. Len(r) : r[i] = r[j] => i = j
    BY <1>3, <1>5, <1>7
  <2> QED BY <1>2, <1>3, <2>2, <2>3, <2>4 DEF Chain, u, r, n
<1> QED BY <1>8, <1>9

\* A frame is taken out of any place of the list, and cleared.
LEMMA ChainRemove ==
  ASSUME NEW t \in FT, NEW s, Chain(t, s), NEW k \in 1 .. Len(s), t.ipt[s[k]].status = "PAGE"
  PROVE  /\ Unlinkable(t, s[k])
         /\ Chain(freeFrame(t, "FIFO", s[k]), SubSeq(s, 1, k - 1) \o SubSeq(s, k + 1, Len(s)))
<1> DEFINE n == Len(s)
           fr == s[k]
           w == freeFrameFIFO(t, fr)
           u == freeFrame(t, "FIFO", fr)
           r == SubSeq(s, 1, k - 1) \o SubSeq(s, k + 1, n)
           prev == t.ipt[fr].prevFrame
           next == t.ipt[fr].nextFrame
           J(i) == IF i < k THEN i ELSE i + 1
<1>1. s \in Seq(Frames) /\ n \in Nat /\ k \in Int /\ 1 <= k /\ k <= n
  BY LenProperties DEF Chain
<1>2. /\ fr \in Frames /\ n > 0 /\ t.flistTail = s[n] /\ t.flistHead = s[1] /\ n \in 1 .. n /\ 1 \in 1 .. n
      /\ \A i \in 1 .. n : s[i] \in Frames /\ s[i] # EMPTY
  BY <1>1, ChainElements
<1>3. /\ \A i, j \in 1 .. n : s[i] = s[j] => i = j
      /\ \A i \in 1 .. n : /\ t.ipt[s[i]].nextFrame = El(s, i + 1)
                           /\ t.ipt[s[i]].prevFrame = El(s, i - 1)
  BY DEF Chain
<1>4. /\ prev = El(s, k - 1) /\ next = El(s, k + 1)
      /\ (fr = t.flistHead <=> k = 1) /\ (fr = t.flistTail <=> k = n)
  BY <1>2, <1>3
<1>5. /\ \A i \in 1 .. n : El(s, i) = s[i] /\ El(s, i) # EMPTY
      /\ El(s, 0) = EMPTY /\ El(s, n + 1) = EMPTY
  BY <1>1, <1>2 DEF El
<1>6. (k = 1 <=> prev = EMPTY) /\ (k = n <=> next = EMPTY)
  <2>1. k # 1 => k - 1 \in 1 .. n
    BY <1>1
  <2>2. k # n => k + 1 \in 1 .. n
    BY <1>1
  <2> QED BY <1>4, <1>5, <2>1, <2>2
<1>7. Unlinkable(t, fr)
  BY <1>4, <1>6 DEF Unlinkable
<1>8. /\ w.flistHead = IF k = 1 THEN next ELSE s[1]
      /\ w.flistTail = IF k = n THEN prev ELSE s[n]
      /\ \A f \in Frames : /\ w.ipt[f].nextFrame = IF f = prev THEN next ELSE t.ipt[f].nextFrame
                           /\ w.ipt[f].prevFrame = IF f = next THEN prev ELSE t.ipt[f].prevFrame
  <2> DEFINE first == fr = t.flistHead
             last == fr = t.flistTail
  <2>1. /\ w.flistHead = IF ~first THEN t.flistHead ELSE IF last THEN EMPTY ELSE next
        /\ w.flistTail = IF ~last THEN t.flistTail ELSE IF first THEN EMPTY ELSE prev
        /\ \A f \in Frames :
             /\ w.ipt[f].nextFrame = IF ~first /\ f = prev THEN IF last THEN EMPTY ELSE next
                                     ELSE t.ipt[f].nextFrame
             /\ w.ipt[f].prevFrame = IF ~last /\ f = next THEN IF first THEN EMPTY ELSE prev
                                     ELSE t.ipt[f].prevFrame
    BY <1>2, UnlinkEffect
  <2> HIDE DEF w, prev, next, n, fr
  <2> QED BY <1>2, <1>4, <1>6, <2>1, EmptyNoFrame
<1>9. w \in FT /\ u = clearFrame(w, fr)
  BY <1>2, FreeFrameFIFOType DEF freeFrame, Unlinks
<1>10. /\ u.flistHead = w.flistHead /\ u.flistTail = w.flistTail
       /\ \A f \in Frames : f # fr => u.ipt[f] = w.ipt[f]
  <2> HIDE DEF w, u, fr
  <2> QED BY <1>9 DEF clearFrame, FT
<1>11. /\ r \in Seq(Frames) /\ Len(r) = n - 1
       /\ \A i \in 1 .. n - 1 : r[i] = s[J(i)]
  <2>1. Len(r) = n - 1 /\ \A i \in 1 .. n - 1 : r[i] = s[J(i)]
    BY <1>1, RemovalFacts
  <2>2. SubSeq(s, 1, k - 1) \in Seq(Frames) /\ SubSeq(s, k + 1, n) \in Seq(Frames)
    <3>1. (\A i \in 1 .. k - 1 : s[i] \in Frames) /\ (\A i \in k + 1 .. n : s[i] \in Frames)
      BY <1>1, <1>2
    <3>2. 1 \in Int /\ k - 1 \in Int /\ k + 1 \in Int /\ n \in Int
      BY <1>1
    <3> HIDE DEF n
    <3> QED BY <3>1, <3>2, SubSeqProperties
  <2>3. r \in Seq(Frames)
    BY <2>2, ConcatProperties
  <2> QED BY <2>1, <2>3
<1> HIDE DEF w, u, r, prev, next, n, fr
<1>12. \A i \in 1 .. n - 1 : J(i) \in 1 .. n /\ J(i) # k
  BY <1>1
<1>13. \A i \in 0 .. n : El(r, i) = IF i < k THEN El(s, i) ELSE El(s, i + 1)
  <2> SUFFICES ASSUME NEW i \in 0 .. n PROVE El(r, i) = IF i < k THEN El(s, i) ELSE El(s, i + 1)
    OBVIOUS
  <2>1. CASE i = 0
    <3>1. El(r, 0) = EMPTY /\ 0 < k
      BY <1>1, <1>11 DEF El
    <3> QED BY <1>5, <2>1, <3>1
  <2>2. CASE i = n
    <3>1. El(r, n) = EMPTY /\ ~(n < k)
      BY <1>1, <1>11 DEF El
    <3> QED BY <1>5, <2>2, <3>1
  <2>3. CASE i \in 1 .. n - 1
    <3>1. El(r, i) = s[J(i)]
      BY <1>11, <2>3 DEF El
    <3>2. J(i) \in 1 .. n
      BY <1>12, <2>3
    <3> QED BY <1>5, <3>1, <3>2
  <2> QED BY <1>1, <2>1, <2>2, <2>3
<1>14. u.flistHead = El(r, 1) /\ u.flistTail = El(r, Len(r))
  <2>1. El(r, 1) = IF 1 < k THEN El(s, 1) ELSE El(s, 2)
    BY <1>1, <1>13
  <2>2. El(r, n - 1) = IF n - 1 < k THEN El(s, n - 1) ELSE El(s, n)
    BY <1>1, <1>13
  <2>3. u.flistHead = El(r, 1)
    BY <1>1, <1>2, <1>4, <1>5, <1>8, <1>10, <2>1
  <2>4. u.flistTail = El(r, n - 1)
    BY <1>1, <1>2, <1>4, <1>5, <1>8, <1>10, <2>2
  <2> QED BY <1>11, <2>3, <2>4
<1>15. ASSUME NEW i \in 1 .. n - 1, NEW j \in 1 .. n - 1, r[i] = r[j] PROVE i = j
  <2>1. J(i) = J(j)
    BY <1>3, <1>11, <1>12, <1>15
  <2> QED BY <1>1, <2>1
<1>16. ASSUME NEW i \in 1 .. n - 1
       PROVE  u.ipt[r[i]].nextFrame = El(r, i + 1) /\ u.ipt[r[i]].prevFrame = El(r, i - 1)
  <2> PICK j \in 1 .. n : j = J(i)
    BY <1>12
  <2>1. j # k /\ r[i] = s[j] /\ s[j] \in Frames /\ s[j] # fr
    <3>1. j # k /\ r[i] = s[j] /\ s[j] \in Frames /\ k \in 1 .. n
      BY <1>1, <1>2, <1>11, <1>12
    <3> QED BY <1>3, <3>1 DEF fr
  <2>2. u.ipt[r[i]] = w.ipt[s[j]]
    BY <1>10, <2>1
  <2>3. /\ w.ipt[s[j]].nextFrame = IF s[j] = prev THEN next ELSE El(s, j + 1)
        /\ w.ipt[s[j]].prevFrame = IF s[j] = next THEN prev ELSE El(s, j - 1)
    BY <1>3, <1>8, <2>1
  <2>4. s[j] = prev <=> j = k - 1
    <3>1. CASE k = 1
      BY <1>2, <1>6, <3>1
    <3>2. CASE k # 1
      <4>1. k - 1 \in 1 .. n
        BY <1>1, <3>2
      <4> QED BY <1>3, <1>4, <1>5, <4>1
    <3> QED BY <3>1, <3>2
  <2>5. s[j] = next <=> j = k + 1
    <3>1. CASE k = n
      BY <1>1, <1>2, <1>6, <3>1
    <3>2. CASE k # n
      <4>1. k + 1 \in 1 .. n
        BY <1>1, <3>2
      <4> QED BY <1>3, <1>4, <1>5, <4>1
    <3> QED BY <3>1, <3>2
  <2>6. El(r, i + 1) = (IF i + 1 < k THEN El(s, i + 1) ELSE El(s, i + 1 + 1))
    BY <1>1, <1>13
  <2>7. El(r, i - 1) = (IF i - 1 < k THEN El(s, i - 1) ELSE El(s, (i - 1) + 1))
    BY <1>1, <1>13
  <2>8. w.ipt[s[j]].nextFrame = El(r, i + 1)
    <3>1. CASE j = k - 1
      <4>1. i = k - 1 /\ i + 1 + 1 = k + 1
        BY <1>1, <3>1
      <4> QED BY <1>1, <1>4, <2>3, <2>4, <2>6, <3>1, <4>1
    <3>2. CASE j # k - 1
      <4>1. (i < k => j + 1 = i + 1 /\ i + 1 < k) /\ (~(i < k) => j + 1 = i + 1 + 1 /\ ~(i + 1 < k))
        BY <1>1, <3>2
      <4> QED BY <2>3, <2>4, <2>6, <3>2, <4>1
    <3> QED BY <3>1, <3>2
  <2>9. w.ipt[s[j]].prevFrame = El(r, i - 1)
    <3>1. CASE j = k + 1
      <4>1. i = k /\ i - 1 = k - 1 /\ i - 1 < k
        BY <1>1, <3>1
      <4> QED BY <1>4, <2>3, <2>5, <2>7, <3>1, <4>1
    <3>2. CASE j # k + 1
      <4>1. (i < k => j - 1 = i - 1 /\ i - 1 < k) /\ (~(i < k) => j - 1 = (i - 1) + 1 /\ ~(i - 1 < k))
        BY <1>1, <3>2
      <4> QED BY <2>3, <2>5, <2>7, <3>2, <4>1
    <3> QED BY <3>1, <3>2
  <2> QED BY <2>2, <2>8, <2>9
<1>17. Chain(u, r)
  BY <1>11, <1>14, <1>15, <1>16 DEF Chain
<1> QED BY <1>7, <1>17 DEF u, r, n, fr

-----------------------------------------------------------------------------
(* Following the links reads the list. *)

\* A nonempty set of natural numbers has a least element.
LEMMA LeastOf ==
  ASSUME NEW S \in SUBSET Nat, S # {}
  PROVE  \E m \in S : \A n \in S : m <= n
<1> DEFINE R == {ss \in Nat \X Nat : ss[1] < ss[2]}
<1>1. IsWellFoundedOn(R, Nat)
  BY NatLessThanWellFounded, Zenon DEF OpToRel
<1>2. PICK m \in S : \A n \in S : ~(<<n, m>> \in R)
  <2> HIDE DEF R
  <2> QED BY <1>1, WFMin
<1>3. ASSUME NEW n \in S PROVE m <= n
  <2>1. n \in Nat /\ m \in Nat /\ <<n, m>> \in Nat \X Nat
    OBVIOUS
  <2>2. n < m => <<n, m>>[1] < <<n, m>>[2]
    BY <2>1
  <2>3. n < m => <<n, m>> \in R
    BY <2>1, <2>2, Zenon
  <2>4. ~(n < m)
    BY <1>2, <2>3
  <2> QED BY <2>1, <2>4
<1> QED BY <1>3

\* A list has no more elements than there are frames, and as many as the set of them.
LEMMA ChainLength ==
  ASSUME NEW t, NEW s, Chain(t, s)
  PROVE  /\ Len(s) \in 0 .. NFRAMES
         /\ Cardinality({s[i] : i \in 1 .. Len(s)}) = Len(s)
<1> DEFINE n == Len(s)
           T == {s[i] : i \in 1 .. n}
           g == [i \in 1 .. n |-> s[i]]
<1>1. /\ n \in Nat /\ \A i \in 1 .. n : s[i] \in Frames
      /\ \A i, j \in 1 .. n : s[i] = s[j] => i = j
  BY ChainElements DEF Chain
<1>2. NFRAMES \in Nat /\ NFRAMES > 0
  BY SizesAssumption
<1>3. IsFiniteSet(Frames) /\ Cardinality(Frames) = NFRAMES
  <2>1. 0 \in Int /\ NFRAMES - 1 \in Int
    BY <1>2
  <2>2. IsFiniteSet(0 .. NFRAMES - 1) /\ Cardinality(0 .. NFRAMES - 1) = IF 0 > NFRAMES - 1 THEN 0 ELSE NFRAMES - 1 - 0 + 1
    BY <2>1, FS_Interval
  <2> QED BY <1>2, <2>2 DEF Frames
<1> HIDE DEF n
<1>4. g \in Bijection(1 .. n, T)
  BY <1>1 DEF Bijection, Injection, Surjection, IsInjective
<1>5. Cardinality(T) = n /\ IsFiniteSet(1 .. n)
  <2>1. ExistsBijection(1 .. n, T)
    BY <1>4 DEF ExistsBijection
  <2>2. 1 \in Int /\ n \in Int
    BY <1>1
  <2>3. IsFiniteSet(1 .. n)
    BY <2>2, FS_Interval
  <2> HIDE DEF T
  <2> QED BY <1>1, <2>1, <2>3, FS_CountingElements
<1>6. T \in SUBSET Frames
  BY <1>1
<1>7. Cardinality(T) <= NFRAMES
  <2> HIDE DEF T
  <2> QED BY <1>3, <1>6, FS_Subset
<1>8. n \in 0 .. NFRAMES
  BY <1>1, <1>2, <1>5, <1>7
<1> QED BY <1>5, <1>8 DEF n

\* The sequence that Resident reads is the list.
LEMMA ReadList ==
  ASSUME NEW s, Chain(ft, s)
  PROVE  Resident = s
<1> DEFINE n == Len(s)
           g == [i \in 1 .. NFRAMES |-> El(s, i)]
           Body(h) == [i \in 1 .. NFRAMES |-> IF i = 1 THEN ft.flistHead ELSE NextOf(h[i - 1])]
<1>0. Len(s) \in 0 .. NFRAMES
  BY ChainLength
<1>1. NFRAMES \in Nat /\ NFRAMES > 0 /\ n \in Nat /\ n <= NFRAMES
  BY <1>0, SizesAssumption
<1>2. /\ s \in Seq(Frames) /\ \A i \in 1 .. n : s[i] \in Frames /\ s[i] # EMPTY
      /\ ft.flistHead = El(s, 1)
      /\ \A i \in 1 .. n : ft.ipt[s[i]].nextFrame = El(s, i + 1)
  <2>1. \A i \in 1 .. n : s[i] \in Frames /\ s[i] # EMPTY
    BY ChainElements
  <2> QED BY <2>1 DEF Chain
<1>3. \A i \in Nat \ {0} : NextOf(El(s, i)) = El(s, i + 1)
  <2> SUFFICES ASSUME NEW i \in Nat \ {0} PROVE NextOf(El(s, i)) = El(s, i + 1)
    OBVIOUS
  <2>1. CASE i \in 1 .. n
    BY <1>2, <2>1 DEF NextOf, El
  <2>2. CASE i \notin 1 .. n
    <3>1. i + 1 \notin 1 .. n
      BY <1>1, <2>2
    <3> QED BY <2>2, <3>1 DEF NextOf, El
  <2> QED BY <2>1, <2>2
<1> HIDE DEF n
<1>4. g = Body(g)
  <2>1. ASSUME NEW i \in 1 .. NFRAMES, i # 1
        PROVE  g[i] = NextOf(g[i - 1])
    <3>1. i - 1 \in 1 .. NFRAMES /\ i - 1 \in Nat \ {0} /\ (i - 1) + 1 = i
      BY <1>1, <2>1
    <3>2. NextOf(El(s, i - 1)) = El(s, (i - 1) + 1)
      BY <1>3, <3>1
    <3> QED BY <3>1, <3>2
  <2>2. g[1] = ft.flistHead
    BY <1>1, <1>2
  <2>3. \A i \in 1 .. NFRAMES : g[i] = IF i = 1 THEN ft.flistHead ELSE NextOf(g[i - 1])
    <3> HIDE DEF g
    <3> QED BY <2>1, <2>2
  <2>4. g = [i \in 1 .. NFRAMES |-> g[i]]
    OBVIOUS
  <2> HIDE DEF g
  <2> QED BY <2>3, <2>4
<1>5. Follow = Body(Follow)
  <2> HIDE DEF g
  <2>1. Follow = CHOOSE h : h = Body(h)
    BY DEF Follow
  <2>2. \E h : h = Body(h)
    BY <1>4
  <2> HIDE DEF Body
  <2> QED BY <2>1, <2>2
<1>6. Follow = g
  <2> DEFINE bad == {i \in 1 .. NFRAMES : Follow[i] # g[i]}
  <2>1. \A i \in 1 .. NFRAMES : /\ Follow[i] = IF i = 1 THEN ft.flistHead ELSE NextOf(Follow[i - 1])
                                /\ g[i] = IF i = 1 THEN ft.flistHead ELSE NextOf(g[i - 1])
    <3> HIDE DEF g
    <3> QED BY <1>4, <1>5
  <2>2. bad = {}
    <3> SUFFICES ASSUME bad # {} PROVE FALSE
      OBVIOUS
    <3>1. bad \in SUBSET Nat
      OBVIOUS
    <3>2. PICK m \in bad : \A i \in bad : m <= i
      <4> HIDE DEF bad
      <4> QED BY <3>1, LeastOf
    <3> HIDE DEF g
    <3>3. m \in 1 .. NFRAMES /\ m # 1
      BY <2>1
    <3>4. m - 1 \in 1 .. NFRAMES /\ ~(m <= m - 1)
      BY <1>1, <3>3
    <3>5. Follow[m - 1] = g[m - 1]
      BY <3>2, <3>4
    <3> QED BY <2>1, <3>2, <3>3, <3>5
  <2>3. \A i \in 1 .. NFRAMES : Follow[i] = g[i]
    BY <2>2
  <2>4. Follow = [i \in 1 .. NFRAMES |-> Follow[i]]
    <3>1. DOMAIN Follow = 1 .. NFRAMES
      BY <1>5
    <3> QED BY <1>5
  <2>5. g = [i \in 1 .. NFRAMES |-> g[i]]
    OBVIOUS
  <2> HIDE DEF g
  <2> QED BY <2>3, <2>4, <2>5
<1>7. {i \in 1 .. NFRAMES : Follow[i] # EMPTY} = 1 .. n
  BY <1>1, <1>2, <1>6 DEF El, n
<1>8. Cardinality(1 .. n) = n
  <2>1. 1 \in Int /\ n \in Int
    BY <1>1
  <2>2. Cardinality(1 .. n) = IF 1 > n THEN 0 ELSE n - 1 + 1
    BY <2>1, FS_Interval
  <2> QED BY <1>1, <2>2
<1>9. Resident = [i \in 1 .. n |-> Follow[i]]
  BY <1>7, <1>8 DEF Resident
<1>10. \A i \in 1 .. n : i \in 1 .. NFRAMES /\ Follow[i] = s[i]
  BY <1>1, <1>6 DEF El, n
<1>11. s = [i \in 1 .. n |-> s[i]]
  BY <1>2 DEF n
<1> QED BY <1>9, <1>10, <1>11

-----------------------------------------------------------------------------
(* The invariant. *)

\* The frame in hand of a process that evicts or is about to use it: a page, or one that
\* was not in use.  The clock runs under GCA only.
Busy(a) == th[a].pc \in {"evict", "write_bs", "init"}
FrameToUse(l) ==
  LET f == ft.ipt[l.fr]
  IN  /\ l.pc \in {"evict", "write_bs"} => f.status = "PAGE"
      /\ l.pc = "init" => f.status \in {"NOT_USED", "PAGE"}
      /\ l.pc = "scan" => currpolicy = "GCA"
HandOK == \A a \in Actors : FrameToUse(th[a])

\* The list is s.  Under FIFO it holds the pages that are not victims, under GCA nothing.
IsPage(f) == ft.ipt[f].status = "PAGE"
QueueIs(s) ==
  /\ Chain(ft, s)
  /\ currpolicy = "FIFO" => \A f \in Frames : In(f, s) <=> IsPage(f) /\ f \notin Victims
  /\ currpolicy = "GCA" => s = <<>>
QueueInv == HandOK /\ \E s \in Seq(Frames) : QueueIs(s)

\* A step of FrameQueue, or none, from queue s and victim v to queue r and victim w.
QueueStep(s, v, r, w) ==
  \/ s = r /\ v = w
  \/ \E f \in Frames : v = EMPTY /\ ~In(f, s) /\ r = <<f>> \o s /\ w = v
  \/ v = EMPTY /\ Len(s) > 0 /\ w = s[Len(s)] /\ r = SubSeq(s, 1, Len(s) - 1)
  \/ v # EMPTY /\ w = EMPTY /\ (r = s \/ r = <<v>> \o s)
  \/ \E k \in 1 .. Len(s) : /\ r = SubSeq(s, 1, k - 1) \o SubSeq(s, k + 1, Len(s))
                            /\ w = v
Moves(s) == \E r \in Seq(Frames) : QueueIs(r)' /\ QueueStep(s, Victim, r, Victim')

\* Whoever is busy with a frame holds pf_sem, and nobody else does.
LEMMA OneBusy ==
  ASSUME IInv, NEW a \in Actors, ~Queued(a), th[a].pc \in FaultPath
  PROVE  \A b \in Actors : Busy(b) => b = a
<1> SUFFICES ASSUME NEW b \in Actors, Busy(b) PROVE b = a
  OBVIOUS
<1>1. ~Queued(b)
  BY DEF IInv, SemaphoreOK, Queued, Busy
<1>2. Holds(a) /\ Holds(b)
  BY <1>1 DEF Holds, Busy, FaultPath
<1> QED BY <1>2 DEF IInv, MutualExclusion

\* So there is at most one victim, the frame in hand.
LEMMA VictimOf ==
  ASSUME IInv, NEW a \in Actors, ~Queued(a), th[a].pc \in FaultPath
  PROVE  /\ Victims = IF Busy(a) /\ currpolicy = "FIFO" /\ IsPage(th[a].fr) THEN {th[a].fr} ELSE {}
         /\ Victim = IF Busy(a) /\ currpolicy = "FIFO" /\ IsPage(th[a].fr) THEN th[a].fr ELSE EMPTY
<1>1. \A b \in Actors : Busy(b) => b = a
  BY OneBusy
<1>2. Busy(a) => th[a].fr \in Frames
  BY DEF Busy, IInv, LocalsOK
<1>3. Victims = IF Busy(a) /\ currpolicy = "FIFO" /\ IsPage(th[a].fr) THEN {th[a].fr} ELSE {}
  BY <1>1, <1>2 DEF Victims, Busy, IsPage
<1> QED BY <1>3 DEF Victim

\* A step that neither takes a page as a victim nor uses a victim's frame.
KeepsHand(a) ==
  /\ Others(a) /\ currpolicy' = currpolicy
  /\ \A f \in Frames : IsPage(f)' <=> IsPage(f)
  /\ \/ ~Busy(a) /\ ~Busy(a)'
     \/ Busy(a) /\ Busy(a)' /\ th'[a].fr = th[a].fr
     \/ ~Busy(a) /\ Busy(a)' /\ (currpolicy = "GCA" \/ ~IsPage(th'[a].fr))

\* It leaves the victims as they are.
LEMMA SameVictims ==
  ASSUME IInv, IInv', NEW a \in Actors, KeepsHand(a)
  PROVE  Victims' = Victims
<1>1. \A b \in Actors : b # a => (Busy(b)' <=> Busy(b)) /\ th'[b].fr = th[b].fr
  BY DEF KeepsHand, Others, Busy
<1>2. Busy(a)' => th'[a].fr \in Frames
  BY DEF Busy, IInv, LocalsOK
<1>3. Victims = {f \in Frames : currpolicy = "FIFO" /\ IsPage(f) /\ \E b \in Actors : Busy(b) /\ th[b].fr = f}
  BY DEF Victims, Busy, IsPage
<1>4. Victims' = {f \in Frames : currpolicy' = "FIFO" /\ IsPage(f)' /\ \E b \in Actors : Busy(b)' /\ th'[b].fr = f}
  BY DEF Victims, Busy, IsPage
<1>5. \A f \in Frames : currpolicy = "FIFO" /\ IsPage(f) =>
        ((\E b \in Actors : Busy(b)' /\ th'[b].fr = f) <=> (\E b \in Actors : Busy(b) /\ th[b].fr = f))
  BY <1>1, <1>2 DEF KeepsHand
<1> QED BY <1>3, <1>4, <1>5 DEF KeepsHand

\* The queue is the same when the pages, the victims and the links are.
LEMMA Unmoved ==
  ASSUME NEW s \in Seq(Frames), QueueIs(s), currpolicy' = currpolicy, Victims' = Victims,
         ft'.flistHead = ft.flistHead, ft'.flistTail = ft.flistTail,
         \A f \in Frames : IsPage(f)' <=> IsPage(f),
         \A f \in Frames : In(f, s) => /\ ft'.ipt[f].nextFrame = ft.ipt[f].nextFrame
                                       /\ ft'.ipt[f].prevFrame = ft.ipt[f].prevFrame
  PROVE  Moves(s)
<1>1. Chain(ft, s)
  BY DEF QueueIs
<1>2. \A i \in 1 .. Len(s) : s[i] \in Frames /\ In(s[i], s)
  BY <1>1, ChainElements
<1>3. Chain(ft', s)
  BY <1>1, <1>2, ChainSame
<1>4. Victim' = Victim
  BY DEF Victim
<1>5. QueueIs(s)'
  BY <1>3 DEF QueueIs
<1> QED BY <1>4, <1>5 DEF Moves, QueueStep

\* A step that leaves the inverted page table alone.
LEMMA TableKept ==
  ASSUME IInv, IInv', NEW s \in Seq(Frames), QueueIs(s), NEW a \in Actors, KeepsHand(a), ft' = ft
  PROVE  Moves(s)
<1>1. Victims' = Victims
  BY SameVictims
<1>2. /\ currpolicy' = currpolicy /\ \A f \in Frames : IsPage(f)' <=> IsPage(f)
      /\ ft'.flistHead = ft.flistHead /\ ft'.flistTail = ft.flistTail
      /\ \A f \in Frames : In(f, s) => /\ ft'.ipt[f].nextFrame = ft.ipt[f].nextFrame
                                       /\ ft'.ipt[f].prevFrame = ft.ipt[f].prevFrame
  BY DEF KeepsHand
<1> QED BY <1>1, <1>2, Unmoved

\* Nothing but perhaps the reason for a stop changes.
LEMMA StillQueue ==
  ASSUME HandOK, NEW s \in Seq(Frames), QueueIs(s), Still, currpolicy' = currpolicy
  PROVE  HandOK' /\ Moves(s)
<1>1. ft' = ft /\ th' = th
  BY DEF Still
<1>2. HandOK'
  BY <1>1 DEF HandOK, FrameToUse
<1>3. Victims' = Victims
  BY <1>1 DEF Victims
<1>4. /\ \A f \in Frames : IsPage(f)' <=> IsPage(f)
      /\ ft'.flistHead = ft.flistHead /\ ft'.flistTail = ft.flistTail
      /\ \A f \in Frames : In(f, s) => /\ ft'.ipt[f].nextFrame = ft.ipt[f].nextFrame
                                       /\ ft'.ipt[f].prevFrame = ft.ipt[f].prevFrame
  BY <1>1 DEF IsPage
<1> QED BY <1>2, <1>3, <1>4, Unmoved

\* The frames in hand of the others are left alone.
LEMMA HandKept ==
  ASSUME HandOK, NEW a \in Actors, Others(a), currpolicy' = currpolicy, FrameToUse(th[a])',
         \A b \in Actors : b # a /\ Busy(b) => ft'.ipt[th[b].fr].status = ft.ipt[th[b].fr].status
  PROVE  HandOK'
<1> SUFFICES ASSUME NEW b \in Actors, b # a PROVE FrameToUse(th[b])'
  BY DEF HandOK
<1>1. th'[b] = th[b] /\ FrameToUse(th[b])
  BY DEF Others, HandOK
<1> QED BY <1>1 DEF FrameToUse, Busy

-----------------------------------------------------------------------------
(* Steps that leave the list alone. *)

\* Accesses, faults and the calls of vcreate and kill do not touch the list.
LEMMA UserQueue ==
  ASSUME IInv, IInv', HandOK, NEW s \in Seq(Frames), QueueIs(s), NEW p \in Procs,
         Access(p) \/ Retry(p) \/ PfHandler(p)
  PROVE  HandOK' /\ Moves(s)
<1>0. p \in Actors
  BY Kinds
<1>1. /\ Others(p) /\ ft' = ft /\ currpolicy' = currpolicy
      /\ th[p].pc \in {"user", "access", "pf"} /\ th'[p].pc \in {"user", "pf", "exit", "alloc"}
  <2>1. CASE Access(p) \/ Retry(p)
    <3>1. PICK v \in Pages, w \in Values \cup {NOWRITE} : Perform(p, v, w) \/ PageFault(p, v, w)
      BY <2>1, UserEffect
    <3>2. th[p].pc \in {"user", "access"}
      BY <2>1, UserEffect
    <3>3. CASE Perform(p, v, w)
      BY <3>2, <3>3, PerformEffect, IdleFields DEF Perform
    <3>4. CASE PageFault(p, v, w)
      BY <3>2, <3>4, PageFaultEffect DEF PageFault
    <3> QED BY <3>1, <3>3, <3>4
  <2>2. CASE PfHandler(p)
    <3>1. currpolicy' = currpolicy
      BY <2>2 DEF PfHandler
    <3> QED BY <2>2, <3>1, PfHandlerEffect DEF At
  <2> QED BY <2>1, <2>2
<1>2. HandOK'
  <2>1. FrameToUse(th[p])'
    BY <1>1 DEF FrameToUse
  <2> QED BY <1>0, <1>1, <2>1, HandKept
<1>3. KeepsHand(p)
  BY <1>1 DEF KeepsHand, Busy, IsPage
<1> QED BY <1>0, <1>2, <1>3, <1>1, TableKept

\* Neither do the steps of getNewFrame that look for a frame, and write_bs.
LEMMA FrameQueueKept ==
  ASSUME IInv, IInv', HandOK, NEW s \in Seq(Frames), QueueIs(s), NEW a \in Actors,
         TakeFree(a) \/ NoFrameAvailable(a) \/ StartScan(a) \/ Scan(a) \/ WriteBs(a)
  PROVE  HandOK' /\ Moves(s)
<1>0. currpolicy' = currpolicy
  <2>1. CASE Scan(a)
    BY <2>1, Zenon DEF Scan, Stop
  <2> QED BY <2>1 DEF TakeFree, NoFrameAvailable, StartScan, WriteBs, Stop
<1>1. CASE Still
  BY <1>0, <1>1, StillQueue
<1>2. CASE ~Still
  <2>1. /\ MayRun(a) /\ Others(a) /\ ft' = ft /\ FrameToUse(th[a])' /\ KeepsHand(a) /\ th[a].pc \in FaultPath
    <3>1. CASE TakeFree(a)
      <4>1. /\ At(a, "alloc") /\ th'[a].pc = "init" /\ Others(a) /\ ft' = ft
            /\ ft.ipt[th'[a].fr].status = "NOT_USED"
        BY <3>1, TakeFreeEffect
      <4> QED BY <1>0, <4>1 DEF At, FrameToUse, KeepsHand, Busy, IsPage, FaultPath
    <3>2. CASE NoFrameAvailable(a)
      <4>1. At(a, "alloc") /\ th'[a].pc = "user" /\ Others(a) /\ ft' = ft
        BY <1>2, <3>2, NoFrameEffect, IdleFields
      <4> QED BY <1>0, <4>1 DEF At, FrameToUse, KeepsHand, Busy, IsPage, FaultPath
    <3>3. CASE StartScan(a)
      <4>1. At(a, "alloc") /\ th'[a].pc = "scan" /\ Others(a) /\ ft' = ft
        BY <3>3, StartScanEffect
      <4>2. currpolicy = "GCA"
        BY <3>3 DEF StartScan
      <4> QED BY <1>0, <4>1, <4>2 DEF At, FrameToUse, KeepsHand, Busy, IsPage, FaultPath
    <3>4. CASE Scan(a)
      <4>1. /\ At(a, "scan") /\ Others(a) /\ ft' = ft
            /\ \/ th'[a].pc = "init" /\ ft.ipt[th'[a].fr].status = "NOT_USED"
               \/ th'[a].pc = "scan"
               \/ th'[a].pc = "evict" /\ ft.ipt[th'[a].fr].status = "PAGE"
        BY <1>2, <3>4, ScanEffect
      <4>2. currpolicy = "GCA"
        BY <4>1 DEF HandOK, FrameToUse, At
      <4> QED BY <1>0, <4>1, <4>2 DEF At, FrameToUse, KeepsHand, Busy, IsPage, FaultPath
    <3>5. CASE WriteBs(a)
      <4>1. At(a, "write_bs") /\ th'[a].pc = "init" /\ th'[a].fr = th[a].fr /\ Others(a) /\ ft' = ft
        BY <3>5, WriteBsEffect
      <4>2. ft.ipt[th[a].fr].status = "PAGE"
        BY <4>1 DEF HandOK, FrameToUse, At
      <4> QED BY <1>0, <4>1, <4>2 DEF At, FrameToUse, KeepsHand, Busy, IsPage, FaultPath
    <3> QED BY <3>1, <3>2, <3>3, <3>4, <3>5
  <2>2. HandOK'
    BY <1>0, <2>1, HandKept
  <2> QED BY <2>1, <2>2, TableKept
<1> QED BY <1>1, <1>2

\* The call of vcreate or of kill, and the policy.
LEMMA CallQueue ==
  ASSUME IInv, IInv', HandOK, NEW s \in Seq(Frames), QueueIs(s), NEW a \in Actors,
         (a \in Creators /\ Vcreate(a)) \/ \E p \in Procs : Kill(a, p)
  PROVE  HandOK' /\ Moves(s)
<1>0. currpolicy' = currpolicy
  BY DEF Vcreate, Kill
<1>1. CASE Still
  BY <1>0, <1>1, StillQueue
<1>2. CASE ~Still
  <2>1. /\ Others(a) /\ ft' = ft /\ th[a].pc \in {"user", "exit"} /\ th'[a].pc \in {"alloc", "kill"}
    <3>1. CASE a \in Creators /\ Vcreate(a)
      BY <1>2, <3>1, VcreateEffect DEF At
    <3>2. ASSUME NEW p \in Procs, Kill(a, p)
          PROVE  Others(a) /\ ft' = ft /\ th[a].pc \in {"user", "exit"} /\ th'[a].pc \in {"alloc", "kill"}
      BY <3>2, KillEffect
    <3> QED BY <3>1, <3>2
  <2>2. FrameToUse(th[a])' /\ KeepsHand(a)
    BY <1>0, <2>1 DEF FrameToUse, KeepsHand, Busy, IsPage
  <2>3. HandOK'
    BY <1>0, <2>1, <2>2, HandKept
  <2> QED BY <2>1, <2>2, <2>3, TableKept
<1> QED BY <1>1, <1>2

\* A process ends or begins; neither it nor its maker is busy with a frame.
LEMMA ProcessQueue ==
  ASSUME IInv, IInv', OwnInv, HandOK, NEW s \in Seq(Frames), QueueIs(s), NEW a \in Actors,
         FinishKill(a) \/ (a \in Creators /\ FinishVcreate(a))
  PROVE  HandOK' /\ Moves(s)
<1>0. currpolicy' = currpolicy
  BY DEF FinishKill, FinishVcreate, Stop
<1>1. CASE Still
  BY <1>0, <1>1, StillQueue
<1>2. CASE ~Still
  <2>1. PICK p \in Procs : /\ p = th[a].pid /\ th'[a] = Idle /\ th'[p] = Idle /\ ft' = ft
                           /\ \A b \in Actors : b # a /\ b # p => th'[b] = th[b]
                           /\ ~Busy(a) /\ ~Busy(p)
    <3>1. CASE FinishKill(a)
      <4>1. /\ At(a, "kill") /\ th[a].pid \in Procs /\ th'[a] = Idle /\ th'[th[a].pid] = Idle
            /\ \A b \in Actors : b # a /\ b # th[a].pid => th'[b] = th[b]
            /\ ft' = ft
        BY <3>1, FinishKillEffect
      <4>2. th[a].pid = a \/ OutsideFaultPath(th[a].pid)
        BY <4>1 DEF At, OwnInv, KillAlone
      <4>3. ~Busy(a) /\ ~Busy(th[a].pid)
        BY <4>1, <4>2 DEF At, Busy, OutsideFaultPath, IInv, SemaphoreOK, Queued
      <4> QED BY <4>1, <4>3
    <3>2. CASE a \in Creators /\ FinishVcreate(a)
      <4>1. /\ At(a, "init_pd") /\ th[a].pid \in Procs /\ SlotFree(th[a].pid)
            /\ th'[a] = Idle /\ th'[th[a].pid] = Idle
            /\ \A b \in Actors : b # a /\ b # th[a].pid => th'[b] = th[b]
            /\ ft' = ft
        BY <1>2, <3>2, FinishVcreateEffect
      <4>2. ~Busy(a) /\ ~Busy(th[a].pid)
        BY <4>1 DEF At, Busy, IInv, LocalsOK
      <4> QED BY <4>1, <4>2
    <3> QED BY <3>1, <3>2
  <2>2. p \in Actors
    BY Kinds
  <2>3. \A b \in Actors : \/ th'[b].pc = "user" /\ ~Busy(b)
                          \/ th'[b] = th[b]
    BY <2>1, <2>2, IdleFields
  <2>4. HandOK'
    BY <1>0, <2>1, <2>3 DEF HandOK, FrameToUse
  <2>5. Victims' = Victims
    BY <1>0, <2>1, <2>3 DEF Victims, Busy
  <2>6. /\ \A f \in Frames : IsPage(f)' <=> IsPage(f)
        /\ ft'.flistHead = ft.flistHead /\ ft'.flistTail = ft.flistTail
        /\ \A f \in Frames : In(f, s) => /\ ft'.ipt[f].nextFrame = ft.ipt[f].nextFrame
                                         /\ ft'.ipt[f].prevFrame = ft.ipt[f].prevFrame
    BY <2>1 DEF IsPage
  <2> QED BY <1>0, <2>4, <2>5, <2>6, Unmoved
<1> QED BY <1>1, <1>2

-----------------------------------------------------------------------------
(* Counts and the choice of a victim. *)

\* Counting a reference does not touch the list.
LEMMA IncLinks ==
  ASSUME NEW t \in FT, NEW x
  PROVE  LET u == incRefCount(t, x)
         IN  /\ u.flistHead = t.flistHead /\ u.flistTail = t.flistTail
             /\ \A f \in Frames : /\ u.ipt[f].nextFrame = t.ipt[f].nextFrame
                                  /\ u.ipt[f].prevFrame = t.ipt[f].prevFrame
                                  /\ u.ipt[f].status = t.ipt[f].status
BY DEF incRefCount, FT, FrameRec

\* Nor does clearing the entry of a frame that holds no page, or of any frame under GCA.
LEMMA ClearLinks ==
  ASSUME NEW t \in FT, NEW policy, NEW x \in Frames, ~Unlinks(t, policy, x)
  PROVE  LET u == freeFrame(t, policy, x)
         IN  /\ u.flistHead = t.flistHead /\ u.flistTail = t.flistTail
             /\ \A f \in Frames : f # x => u.ipt[f] = t.ipt[f]
             /\ u.ipt[x] = Cleared
<1>1. freeFrame(t, policy, x) = clearFrame(t, x)
  BY DEF freeFrame
<1>2. /\ clearFrame(t, x).flistHead = t.flistHead /\ clearFrame(t, x).flistTail = t.flistTail
      /\ \A f \in Frames : f # x => clearFrame(t, x).ipt[f] = t.ipt[f]
      /\ clearFrame(t, x).ipt[x] = Cleared
  BY DEF clearFrame, FT
<1> QED BY <1>1, <1>2

\* Nor does dropping a reference to a page table, also when the table goes with it.
LEMMA DecLinks ==
  ASSUME NEW t \in FT, NEW policy, NEW x \in Frames, t.ipt[x].status = "PTAB"
  PROVE  LET u == decRefCount(t, policy, x)
         IN  /\ u.flistHead = t.flistHead /\ u.flistTail = t.flistTail
             /\ \A f \in Frames : f # x => u.ipt[f] = t.ipt[f]
             /\ u.ipt[x].status \in {"PTAB", "NOT_USED"}
<1> DEFINE w == [t EXCEPT !.ipt[x].refCount = (@ + WORD - 1) % WORD]
           u == decRefCount(t, policy, x)
<1>1. w \in FT
  BY WordType, SizesAssumption DEF FT, FrameRec
<1>2. /\ w.flistHead = t.flistHead /\ w.flistTail = t.flistTail
      /\ \A f \in Frames : f # x => w.ipt[f] = t.ipt[f]
      /\ w.ipt[x].status = "PTAB"
  BY DEF FT, FrameRec
<1>3. u = IF w.ipt[x].refCount = 0 THEN freeFrame(w, policy, x) ELSE w
  BY DEF decRefCount
<1> HIDE DEF w
<1>4. ~Unlinks(w, policy, x)
  BY <1>2 DEF Unlinks
<1>5. LET z == freeFrame(w, policy, x)
      IN  /\ z.flistHead = w.flistHead /\ z.flistTail = w.flistTail
          /\ \A f \in Frames : f # x => z.ipt[f] = w.ipt[f]
          /\ z.ipt[x] = Cleared
  BY <1>1, <1>4, ClearLinks
<1>6. Cleared.status = "NOT_USED"
  BY DEF Cleared
<1> QED BY <1>2, <1>3, <1>5, <1>6

\* evictFrame and the end of pf_handler count references.
LEMMA CountQueue ==
  ASSUME IInv, IInv', HandOK, NEW s \in Seq(Frames), QueueIs(s), NEW a \in Actors,
         Evict(a) \/ (a \in Procs /\ ReadBs(a))
  PROVE  HandOK' /\ Moves(s)
<1>0. currpolicy' = currpolicy /\ ft \in FT
  <2>1. currpolicy' = currpolicy
    BY DEF Evict, ReadBs, Stop
  <2> QED BY <2>1, FTType DEF IInv
<1>1. CASE Still
  BY <1>0, <1>1, StillQueue
<1>2. CASE ~Still /\ Evict(a)
  <2> DEFINE q == ft.ipt[th[a].fr].pid
             v == ft.ipt[th[a].fr].vpn
  <2>1. PICK t \in Frames : t = pd[q][vaddr2pdi(v)].pd_base
    BY <1>2, EvictEffect
  <2>2. /\ At(a, "evict") /\ th'[a].fr = th[a].fr /\ Others(a)
        /\ th[a].fr \in Frames /\ ft.ipt[th[a].fr].status = "PAGE"
        /\ ft.ipt[t].status = "PTAB" /\ ft' = decRefCount(ft, currpolicy, t)
        /\ th'[a].pc \in {"init", "write_bs"}
    BY <1>2, <2>1, EvictEffect
  <2>3. /\ ft'.flistHead = ft.flistHead /\ ft'.flistTail = ft.flistTail
        /\ \A f \in Frames : f # t => ft'.ipt[f] = ft.ipt[f]
        /\ ft'.ipt[t].status \in {"PTAB", "NOT_USED"}
    BY <1>0, <2>2, DecLinks
  <2>4. \A f \in Frames : IsPage(f)' <=> IsPage(f)
    BY <2>2, <2>3 DEF IsPage
  <2>5. ~IsPage(t) /\ t \notin Victims
    BY <2>2 DEF IsPage, Victims
  <2>6. FrameToUse(th[a])' /\ KeepsHand(a)
    BY <1>0, <2>2, <2>3, <2>4 DEF At, FrameToUse, KeepsHand, Busy
  <2>7. \A b \in Actors : b # a => ~Busy(b)
    BY <2>2, OneBusy DEF At, MayRun, FaultPath
  <2>8. HandOK'
    BY <1>0, <2>2, <2>6, <2>7, HandKept
  <2>9. Victims' = Victims
    BY <2>6, SameVictims
  <2>10. ~In(t, s)
    <3>1. CASE currpolicy = "FIFO"
      BY <2>5, <3>1 DEF QueueIs
    <3>2. CASE currpolicy = "GCA"
      <4>1. s = <<>>
        BY <3>2 DEF QueueIs
      <4> QED BY <4>1 DEF In
    <3>3. currpolicy \in {"FIFO", "GCA"}
      BY DEF IInv, TypeOK
    <3> QED BY <3>1, <3>2, <3>3
  <2>11. \A f \in Frames : In(f, s) => /\ ft'.ipt[f].nextFrame = ft.ipt[f].nextFrame
                                       /\ ft'.ipt[f].prevFrame = ft.ipt[f].prevFrame
    BY <2>3, <2>10
  <2> QED BY <1>0, <2>3, <2>4, <2>8, <2>9, <2>11, Unmoved
<1>3. CASE a \in Procs /\ ReadBs(a)
  <2>1. /\ At(a, "read_bs") /\ Others(a) /\ ft' = incRefCount(ft, th[a].pt) /\ th'[a].pc = "access"
    BY <1>3, ReadBsEffect
  <2>2. /\ ft'.flistHead = ft.flistHead /\ ft'.flistTail = ft.flistTail
        /\ \A f \in Frames : /\ ft'.ipt[f].nextFrame = ft.ipt[f].nextFrame
                             /\ ft'.ipt[f].prevFrame = ft.ipt[f].prevFrame
                             /\ ft'.ipt[f].status = ft.ipt[f].status
    BY <1>0, <2>1, IncLinks
  <2>3. \A f \in Frames : IsPage(f)' <=> IsPage(f)
    BY <2>2 DEF IsPage
  <2>4. FrameToUse(th[a])' /\ KeepsHand(a)
    BY <1>0, <2>1, <2>3 DEF At, FrameToUse, KeepsHand, Busy
  <2>5. \A b \in Actors : b # a => ~Busy(b)
    BY <2>1, OneBusy DEF At, MayRun, FaultPath
  <2>6. HandOK'
    BY <1>0, <2>1, <2>4, <2>5, HandKept
  <2>7. Victims' = Victims
    BY <2>4, SameVictims
  <2> QED BY <1>0, <2>2, <2>3, <2>6, <2>7, Unmoved
<1> QED BY <1>1, <1>2, <1>3

\* pickFrameFIFO makes the oldest page the victim.
LEMMA PickQueue ==
  ASSUME IInv, IInv', HandOK, NEW s \in Seq(Frames), QueueIs(s), NEW a \in Actors, PickVictim(a)
  PROVE  HandOK' /\ Moves(s)
<1> DEFINE fr == ft.flistTail
           r == SubSeq(s, 1, Len(s) - 1)
<1>1. /\ ft \in FT /\ fr # EMPTY /\ ft' = pickFrameFIFO(ft) /\ currpolicy = "FIFO" /\ currpolicy' = currpolicy
      /\ Chain(ft, s)
  BY FTType DEF PickVictim, IInv, QueueIs
<1>2. /\ At(a, "alloc") /\ th'[a].pc = "evict" /\ Others(a)
      /\ \A f \in Frames : SameEntry(ft, ft', f)
  BY PickVictimEffect
<1>3. th'[a].fr = fr /\ fr \in Frames
  <2>1. th' = [th EXCEPT ![a] = [th[a] EXCEPT !.fr = fr, !.pc = "evict"]]
    BY DEF PickVictim
  <2>2. th'[a] = [th[a] EXCEPT !.fr = fr, !.pc = "evict"] /\ th[a] \in Thread
    BY <2>1, OneStep
  <2>3. th'[a].fr = fr
    BY <2>2 DEF Thread
  <2> QED BY <1>1, <2>3, LinksOf DEF FrameOpt
<1>4. Len(s) > 0 /\ fr = s[Len(s)] /\ Chain(ft', r)
  BY <1>1, ChainPick
<1>5. Len(s) \in Nat /\ Len(s) \in 1 .. Len(s) /\ s[Len(s)] \in Frames /\ In(s[Len(s)], s)
  BY <1>1, <1>4, ChainElements
<1>6. IsPage(fr)
  BY <1>1, <1>4, <1>5 DEF QueueIs
<1>7. \A f \in Frames : IsPage(f)' <=> IsPage(f)
  BY <1>2 DEF IsPage, SameEntry
<1>8. Victims = {} /\ Victim = EMPTY
  <2>1. ~Queued(a) /\ th[a].pc \in FaultPath /\ ~Busy(a)
    BY <1>2 DEF At, MayRun, FaultPath, Busy
  <2> QED BY <2>1, VictimOf
<1>9. \A b \in Actors : b # a => ~Busy(b) /\ ~Busy(b)'
  <2>1. \A b \in Actors : b # a => ~Busy(b)
    BY <1>2, OneBusy DEF At, MayRun, FaultPath
  <2> QED BY <1>2, <2>1 DEF Others, Busy
<1>10. Victims' = {fr} /\ Victim' = fr
  <2>1. Busy(a)'
    BY <1>2 DEF Busy
  <2>2. Victims' = {f \in Frames : currpolicy' = "FIFO" /\ IsPage(f)' /\ \E b \in Actors : Busy(b)' /\ th'[b].fr = f}
    BY DEF Victims, Busy, IsPage
  <2>3. Victims' = {fr}
    BY <1>1, <1>3, <1>6, <1>7, <1>9, <2>1, <2>2
  <2> QED BY <2>3 DEF Victim
<1>11. HandOK'
  <2>1. FrameToUse(th[a])'
    BY <1>2, <1>3, <1>6, <1>7 DEF FrameToUse, IsPage
  <2> QED BY <1>1, <1>2, <1>9, <2>1, HandKept
<1>12. /\ Len(r) = Len(s) - 1 /\ \A i \in 1 .. Len(s) - 1 : r[i] = s[i]
       /\ r \in Seq(Frames)
  <2>1. r \in Seq(Frames)
    BY <1>4 DEF Chain
  <2> DEFINE n == Len(s)
  <2>2. \A i \in 1 .. n - 1 : s[i] \in Frames
    BY <1>1, <1>5, ChainElements
  <2>3. /\ Len(r) = IF 1 <= n - 1 THEN (n - 1) - 1 + 1 ELSE 0
        /\ \A i \in 1 .. (n - 1) - 1 + 1 : r[i] = s[1 + i - 1]
    BY <1>5, <2>2, SubSeqProperties
  <2> HIDE DEF r, n
  <2>4. n \in Nat /\ n > 0
    BY <1>4, <1>5 DEF n
  <2>5. Len(r) = n - 1 /\ \A i \in 1 .. n - 1 : i \in 1 .. (n - 1) - 1 + 1 /\ 1 + i - 1 = i
    BY <2>3, <2>4
  <2> QED BY <2>1, <2>3, <2>5 DEF n
<1> HIDE DEF r, fr
<1>13. \A f \in Frames : In(f, r) <=> In(f, s) /\ f # fr
  <2> SUFFICES ASSUME NEW f \in Frames PROVE In(f, r) <=> In(f, s) /\ f # fr
    OBVIOUS
  <2>1. \A i, j \in 1 .. Len(s) : s[i] = s[j] => i = j
    BY <1>1 DEF Chain
  <2>2. \A i \in 1 .. Len(s) - 1 : i \in 1 .. Len(s) /\ i # Len(s)
    BY <1>5
  <2>3. \A i \in 1 .. Len(s) : i # Len(s) => i \in 1 .. Len(s) - 1
    BY <1>5
  <2> QED BY <1>4, <1>5, <1>12, <2>1, <2>2, <2>3 DEF In
<1>14. QueueIs(r)'
  <2>1. \A f \in Frames : In(f, r) <=> IsPage(f)' /\ f \notin Victims'
    BY <1>1, <1>7, <1>8, <1>10, <1>13 DEF QueueIs
  <2> QED BY <1>1, <1>4, <2>1 DEF QueueIs, r
<1>15. QueueStep(s, Victim, r, Victim')
  BY <1>4, <1>8, <1>10 DEF QueueStep, r
<1> QED BY <1>11, <1>12, <1>14, <1>15 DEF Moves

-----------------------------------------------------------------------------
(* Frames that enter the queue and frames that leave it. *)

\* init_frame puts the frame in hand to use: a page enters the queue under FIFO, and a
\* victim is one no longer.
LEMMA InitQueue ==
  ASSUME IInv, IInv', HandOK, NEW s \in Seq(Frames), QueueIs(s), NEW a \in Actors,
         At(a, "init"), InitFrame(a), Others(a), currpolicy' = currpolicy,
         th'[a].pc \in {"alloc", "read_bs", "init_pd"}
  PROVE  HandOK' /\ Moves(s)
<1>1. /\ ft \in FT /\ Chain(ft, s) /\ th[a].pc = "init" /\ ~Queued(a) /\ currpolicy \in {"FIFO", "GCA"}
  BY FTType DEF IInv, QueueIs, At, MayRun, TypeOK
<1>2. /\ th[a].fr \in Frames /\ ft'.ipt[th[a].fr].status = th[a].type
      /\ \A f \in Frames : f # th[a].fr => SameEntry(ft, ft', f)
  BY InitFrameEffect
<1>a. PICK fr \in Frames : fr = th[a].fr
  BY <1>2
<1>3. /\ th[a].type \in Statuses /\ Owner(a) \in PidOpt
      /\ (IF th[a].type = "PAGE" THEN th[a].v ELSE NO_VPN) \in VpnOpt
  <2>1. th[a] \in Thread
    BY DEF IInv, TypeOK
  <2>2. th[a].type \in Statuses /\ th[a].v \in Pages /\ (IF th[a].type = "PAGE" THEN th[a].v ELSE NO_VPN) \in VpnOpt
    BY <2>1 DEF Thread, VpnOpt
  <2>3. Owner(a) \in PidOpt
    BY <1>1, <2>1 DEF Owner, PidOpt, Actors, IInv, LocalsOK
  <2> QED BY <2>2, <2>3
<1>b. PICK type \in Statuses, pid \in PidOpt, vpn \in VpnOpt :
        /\ type = th[a].type /\ pid = Owner(a)
        /\ vpn = IF th[a].type = "PAGE" THEN th[a].v ELSE NO_VPN
  BY <1>3
<1>4. ft' = init_frame(ft, currpolicy, fr, type, pid, vpn)
  BY <1>a, <1>b DEF InitFrame
<1>c. /\ ft'.ipt[fr].status = type
      /\ \A f \in Frames : f # fr => SameEntry(ft, ft', f)
  BY <1>2, <1>a, <1>b
<1>5. \A b \in Actors : b # a => ~Busy(b) /\ ~Busy(b)'
  <2>1. \A b \in Actors : b # a => ~Busy(b)
    BY <1>1, OneBusy DEF FaultPath
  <2> QED BY <2>1 DEF Others, Busy
<1>6. Victims' = {} /\ Victim' = EMPTY
  <2>1. ~Busy(a)'
    BY DEF Busy
  <2>2. Victims' = {}
    BY <1>5, <2>1 DEF Victims, Busy
  <2> QED BY <2>2 DEF Victim
<1>7. /\ Victims = IF currpolicy = "FIFO" /\ IsPage(fr) THEN {fr} ELSE {}
      /\ Victim = IF currpolicy = "FIFO" /\ IsPage(fr) THEN fr ELSE EMPTY
  <2>1. th[a].pc \in FaultPath /\ Busy(a)
    BY <1>1 DEF FaultPath, Busy
  <2> QED BY <1>1, <1>a, <2>1, VictimOf
<1>8. ~In(fr, s)
  <2>1. CASE currpolicy = "FIFO"
    BY <1>2, <1>7, <2>1 DEF QueueIs
  <2>2. CASE currpolicy = "GCA"
    <3>1. s = <<>>
      BY <2>2 DEF QueueIs
    <3> QED BY <3>1 DEF In
  <2> QED BY <1>1, <2>1, <2>2
<1>9. HandOK'
  <2>1. FrameToUse(th[a])'
    BY DEF FrameToUse
  <2> QED BY <1>5, <2>1, HandKept
<1>10. \A f \in Frames : f # fr => (IsPage(f)' <=> IsPage(f))
  BY <1>c DEF IsPage, SameEntry
<1>11. IsPage(fr)' <=> type = "PAGE"
  BY <1>c DEF IsPage
<1>12. CASE type = "PAGE" /\ currpolicy = "FIFO"
  <2> DEFINE r == <<fr>> \o s
  <2>1. Chain(ft', r)
    BY <1>1, <1>2, <1>3, <1>4, <1>8, <1>12, ChainEnter
  <2>2. /\ r \in Seq(Frames) /\ Len(r) = Len(s) + 1 /\ r[1] = fr
        /\ \A i \in 1 .. Len(s) : r[i + 1] = s[i]
        /\ \A i \in 2 .. Len(s) + 1 : r[i] = s[i - 1]
    BY <1>2, Prepended
  <2> HIDE DEF r
  <2>3. \A f \in Frames : In(f, r) <=> In(f, s) \/ f = fr
    <3> SUFFICES ASSUME NEW f \in Frames PROVE In(f, r) <=> In(f, s) \/ f = fr
      OBVIOUS
    <3>1. Len(s) \in Nat
      BY LenProperties
    <3>2. \A i \in 1 .. Len(s) : i + 1 \in 1 .. Len(r)
      BY <2>2, <3>1
    <3>3. 1 \in 1 .. Len(r) /\ \A i \in 1 .. Len(r) : i # 1 => i \in 2 .. Len(s) + 1 /\ i - 1 \in 1 .. Len(s)
      BY <2>2, <3>1
    <3>4. ASSUME In(f, r) PROVE In(f, s) \/ f = fr
      <4>1. PICK i \in 1 .. Len(r) : r[i] = f
        BY <3>4 DEF In
      <4>2. i # 1 => r[i] = s[i - 1] /\ i - 1 \in 1 .. Len(s)
        BY <2>2, <3>3
      <4> QED BY <2>2, <4>1, <4>2 DEF In
    <3>5. ASSUME In(f, s) PROVE In(f, r)
      <4>1. PICK i \in 1 .. Len(s) : s[i] = f
        BY <3>5 DEF In
      <4>2. r[i + 1] = f /\ i + 1 \in 1 .. Len(r)
        BY <2>2, <3>2, <4>1
      <4> QED BY <4>2 DEF In
    <3>6. In(fr, r)
      BY <2>2, <3>3 DEF In
    <3> QED BY <3>4, <3>5, <3>6
  <2>4. QueueIs(r)'
    <3>1. \A f \in Frames : In(f, r) <=> IsPage(f)' /\ f \notin Victims'
      BY <1>6, <1>7, <1>8, <1>10, <1>11, <1>12, <2>3 DEF QueueIs
    <3> QED BY <1>12, <2>1, <3>1 DEF QueueIs
  <2>5. QueueStep(s, Victim, r, Victim')
    <3>1. CASE IsPage(fr)
      <4>1. Victim = fr /\ fr # EMPTY
        BY <1>2, <1>7, <1>12, <3>1, EmptyNoFrame
      <4> QED BY <1>6, <4>1 DEF QueueStep, r
    <3>2. CASE ~IsPage(fr)
      <4>1. Victim = EMPTY
        BY <1>7, <3>2
      <4> QED BY <1>2, <1>6, <1>8, <4>1 DEF QueueStep, r
    <3> QED BY <3>1, <3>2
  <2> QED BY <1>9, <2>2, <2>4, <2>5 DEF Moves
<1>13. CASE ~(type = "PAGE" /\ currpolicy = "FIFO")
  <2>1. /\ ft'.flistHead = ft.flistHead /\ ft'.flistTail = ft.flistTail
        /\ \A f \in Frames : f # fr => /\ ft'.ipt[f].nextFrame = ft.ipt[f].nextFrame
                                       /\ ft'.ipt[f].prevFrame = ft.ipt[f].prevFrame
    BY <1>1, <1>2, <1>3, <1>4, <1>13, EnterEffect
  <2>2. \A i \in 1 .. Len(s) : s[i] \in Frames /\ s[i] # fr
    BY <1>1, <1>8, ChainElements
  <2>3. Chain(ft', s)
    BY <1>1, <2>1, <2>2, ChainSame
  <2>4. QueueIs(s)'
    <3>1. CASE currpolicy = "FIFO"
      <4>1. \A f \in Frames : In(f, s) <=> IsPage(f)' /\ f \notin Victims'
        BY <1>6, <1>7, <1>8, <1>10, <1>11, <1>13, <3>1 DEF QueueIs
      <4> QED BY <2>3, <3>1, <4>1 DEF QueueIs
    <3>2. CASE currpolicy = "GCA"
      BY <2>3, <3>2 DEF QueueIs
    <3> QED BY <1>1, <3>1, <3>2
  <2>5. QueueStep(s, Victim, s, Victim')
    BY <1>6 DEF QueueStep
  <2> QED BY <1>9, <2>4, <2>5 DEF Moves
<1> QED BY <1>12, <1>13

\* freeProcFrames takes the pages of its victim out of the queue.
LEMMA KillQueue ==
  ASSUME IInv, IInv', OwnInv, HandOK, NEW s \in Seq(Frames), QueueIs(s), NEW a \in Actors, KillFrame(a)
  PROVE  HandOK' /\ Moves(s)
<1>0. currpolicy' = currpolicy /\ ft \in FT /\ currpolicy \in {"FIFO", "GCA"} /\ Chain(ft, s)
  <2>1. currpolicy' = currpolicy
    BY DEF KillFrame, Stop
  <2> QED BY <2>1, FTType DEF IInv, TypeOK, QueueIs
<1>1. CASE Still
  BY <1>0, <1>1, StillQueue
<1>2. CASE ~Still
  <2>1. PICK f \in Frames : f = th[a].i
    BY <1>2, KillFrameEffect
  <2>2. /\ At(a, "kill") /\ th'[a].pc = "kill" /\ Others(a)
        /\ ft.ipt[f].pid = th[a].pid => ft'.ipt[f] = Cleared
        /\ ft.ipt[f].pid # th[a].pid => SameEntry(ft, ft', f)
        /\ \A g \in Frames : g # f => SameEntry(ft, ft', g)
    BY <1>2, <2>1, KillFrameEffect
  <2>3. ft' = IF ft.ipt[f].pid = th[a].pid THEN freeFrame(ft, currpolicy, f) ELSE ft
    BY <1>2, <2>1, StopStill DEF KillFrame
  <2>4. ~Busy(a) /\ ~Busy(a)'
    BY <2>2 DEF At, Busy
  <2>5. \A b \in Actors : Busy(b) => /\ th'[b] = th[b] /\ th[b].fr \in Frames /\ Busy(b)'
                                     /\ ft.ipt[th[b].fr].pid # th[a].pid
    <3> SUFFICES ASSUME NEW b \in Actors, Busy(b)
                 PROVE  /\ th'[b] = th[b] /\ th[b].fr \in Frames /\ Busy(b)'
                        /\ ft.ipt[th[b].fr].pid # th[a].pid
      OBVIOUS
    <3>1. b # a /\ th'[b] = th[b] /\ th[b].pc = "write_bs"
      BY <2>2, <2>4, AloneFacts DEF OwnInv, Others, At, Busy
    <3>2. ~BeingEvicted(th[a].pid)
      BY <2>2 DEF OwnInv, KillAlone, At
    <3> QED BY <3>1, <3>2 DEF BeingEvicted, IInv, LocalsOK, Busy
  <2>6. \A b \in Actors : b # a /\ Busy(b) => ft'.ipt[th[b].fr].status = ft.ipt[th[b].fr].status
    BY <2>2, <2>5 DEF SameEntry
  <2>7. HandOK'
    <3>1. FrameToUse(th[a])'
      BY <2>2 DEF FrameToUse
    <3> QED BY <1>0, <2>2, <2>6, <3>1, HandKept
  <2>8. Victims' = Victims
    <3>1. \A b \in Actors : Busy(b)' <=> Busy(b)
      BY <2>2, <2>4 DEF Others, Busy
    <3>2. \A b \in Actors : Busy(b) => (IsPage(th[b].fr)' <=> IsPage(th[b].fr))
      BY <2>4, <2>5, <2>6 DEF IsPage
    <3>3. Victims = {g \in Frames : currpolicy = "FIFO" /\ IsPage(g) /\ \E b \in Actors : Busy(b) /\ th[b].fr = g}
      BY DEF Victims, Busy, IsPage
    <3>4. Victims' = {g \in Frames : currpolicy' = "FIFO" /\ IsPage(g)' /\ \E b \in Actors : Busy(b)' /\ th'[b].fr = g}
      BY DEF Victims, Busy, IsPage
    <3>5. \A b \in Actors : Busy(b) => ft'.ipt[th[b].fr].status = ft.ipt[th[b].fr].status
      BY <2>4, <2>6
    <3>6. \A g \in Frames : (IsPage(g)' /\ \E b \in Actors : Busy(b)' /\ th'[b].fr = g) <=>
                            (IsPage(g) /\ \E b \in Actors : Busy(b) /\ th[b].fr = g)
      BY <2>5, <3>1, <3>5 DEF IsPage
    <3> QED BY <1>0, <3>3, <3>4, <3>6
  <2>9. Victim' = Victim
    BY <2>8 DEF Victim
  <2>10. Cleared.status = "NOT_USED"
    BY DEF Cleared
  <2>11. CASE ft.ipt[f].pid = th[a].pid /\ Unlinks(ft, currpolicy, f)
    <3>1. ft' = freeFrame(ft, "FIFO", f) /\ currpolicy = "FIFO" /\ IsPage(f) /\ ft.ipt[f].status = "PAGE"
      BY <2>3, <2>11 DEF Unlinks, IsPage
    <3>2. f \notin Victims
      BY <2>5, <2>11 DEF Victims, Busy
    <3>3. PICK k \in 1 .. Len(s) : s[k] = f
      BY <3>1, <3>2 DEF QueueIs, In
    <3> DEFINE r == SubSeq(s, 1, k - 1) \o SubSeq(s, k + 1, Len(s))
    <3>4. Chain(ft', r)
      BY <1>0, <3>1, <3>3, ChainRemove
    <3>5. /\ Len(r) = Len(s) - 1
          /\ \A i \in 1 .. Len(s) - 1 : r[i] = s[IF i < k THEN i ELSE i + 1]
      BY RemovalFacts
    <3>6. r \in Seq(Frames)
      BY <3>4 DEF Chain
    <3> HIDE DEF r
    <3>7. \A g \in Frames : In(g, r) <=> In(g, s) /\ g # f
      <4> SUFFICES ASSUME NEW g \in Frames PROVE In(g, r) <=> In(g, s) /\ g # f
        OBVIOUS
      <4>1. Len(s) \in Nat /\ \A i, j \in 1 .. Len(s) : s[i] = s[j] => i = j
        BY <1>0, ChainElements DEF Chain
      <4>2. ASSUME In(g, r) PROVE In(g, s) /\ g # f
        <5>1. PICK i \in 1 .. Len(s) - 1 : r[i] = g
          BY <3>5, <4>2 DEF In
        <5>2. PICK j \in 1 .. Len(s) : j = (IF i < k THEN i ELSE i + 1) /\ j # k
          <6>1. (IF i < k THEN i ELSE i + 1) \in 1 .. Len(s) /\ (IF i < k THEN i ELSE i + 1) # k
            BY <4>1
          <6> QED BY <6>1
        <5> QED BY <3>3, <3>5, <4>1, <5>1, <5>2 DEF In
      <4>3. ASSUME In(g, s), g # f PROVE In(g, r)
        <5>1. PICK j \in 1 .. Len(s) : s[j] = g /\ j # k
          BY <3>3, <4>3 DEF In
        <5>2. PICK i \in 1 .. Len(s) - 1 : j = (IF i < k THEN i ELSE i + 1)
          <6>1. CASE j < k
            <7>1. j \in 1 .. Len(s) - 1
              BY <4>1, <6>1
            <7> QED BY <6>1, <7>1
          <6>2. CASE ~(j < k)
            <7>1. j - 1 \in 1 .. Len(s) - 1 /\ ~(j - 1 < k) /\ (j - 1) + 1 = j
              BY <4>1, <5>1, <6>2
            <7> QED BY <7>1
          <6> QED BY <6>1, <6>2
        <5> QED BY <3>5, <5>1, <5>2 DEF In
      <4> QED BY <4>2, <4>3
    <3>8. \A g \in Frames : g # f => (IsPage(g)' <=> IsPage(g))
      BY <2>2 DEF IsPage, SameEntry
    <3>9. ~IsPage(f)'
      BY <2>2, <2>10, <2>11 DEF IsPage
    <3>10. QueueIs(r)'
      <4>1. \A g \in Frames : In(g, r) <=> IsPage(g)' /\ g \notin Victims'
        BY <2>8, <3>1, <3>7, <3>8, <3>9 DEF QueueIs
      <4> QED BY <1>0, <3>1, <3>4, <4>1 DEF QueueIs
    <3>11. QueueStep(s, Victim, r, Victim')
      BY <2>9 DEF QueueStep, r
    <3> QED BY <2>7, <3>6, <3>10, <3>11 DEF Moves
  <2>12. CASE ft.ipt[f].pid = th[a].pid /\ ~Unlinks(ft, currpolicy, f)
    <3>1. /\ ft'.flistHead = ft.flistHead /\ ft'.flistTail = ft.flistTail
          /\ \A g \in Frames : g # f => ft'.ipt[g] = ft.ipt[g]
          /\ ft'.ipt[f] = Cleared
      BY <1>0, <2>3, <2>12, ClearLinks
    <3>2. currpolicy = "FIFO" => ~IsPage(f) /\ ~In(f, s)
      BY <2>12 DEF Unlinks, IsPage, QueueIs
    <3>3. currpolicy = "GCA" => ~In(f, s)
      BY DEF QueueIs, In
    <3>4. \A i \in 1 .. Len(s) : s[i] \in Frames /\ s[i] # f
      BY <1>0, <3>2, <3>3, ChainElements
    <3>5. Chain(ft', s)
      BY <1>0, <3>1, <3>4, ChainSame
    <3>6. QueueIs(s)'
      <4>1. CASE currpolicy = "FIFO"
        <5>1. \A g \in Frames : IsPage(g)' <=> IsPage(g)
          BY <2>10, <3>1, <3>2, <4>1 DEF IsPage
        <5>2. \A g \in Frames : In(g, s) <=> IsPage(g)' /\ g \notin Victims'
          BY <2>8, <4>1, <5>1 DEF QueueIs
        <5> QED BY <1>0, <3>5, <4>1, <5>2 DEF QueueIs
      <4>2. CASE currpolicy = "GCA"
        BY <1>0, <3>5, <4>2 DEF QueueIs
      <4> QED BY <1>0, <4>1, <4>2
    <3>7. QueueStep(s, Victim, s, Victim')
      BY <2>9 DEF QueueStep
    <3> QED BY <2>7, <3>6, <3>7 DEF Moves
  <2>13. CASE ft.ipt[f].pid # th[a].pid
    <3>1. ft' = ft
      BY <2>3, <2>13
    <3>2. /\ \A g \in Frames : IsPage(g)' <=> IsPage(g)
          /\ ft'.flistHead = ft.flistHead /\ ft'.flistTail = ft.flistTail
          /\ \A g \in Frames : In(g, s) => /\ ft'.ipt[g].nextFrame = ft.ipt[g].nextFrame
                                           /\ ft'.ipt[g].prevFrame = ft.ipt[g].prevFrame
      BY <3>1 DEF IsPage
    <3> QED BY <1>0, <2>7, <2>8, <3>2, Unmoved
  <2> QED BY <2>11, <2>12, <2>13
<1> QED BY <1>1, <1>2

\* srpolicy finds no page in memory, and so an empty queue and no victim.
LEMMA PolicyQueue ==
  ASSUME ~SwitchWhileLive, IInv, IInv', OwnInv, HandOK, NEW s \in Seq(Frames), QueueIs(s),
         NEW a \in Creators, srpolicy(a)
  PROVE  HandOK' /\ Moves(s)
<1>0. \A f \in Frames : ft.ipt[f].status # "PAGE"
  BY Zenon DEF srpolicy
<1>1. /\ ft' = ft /\ th' = th /\ cpu = NOBODY /\ \A f \in Frames : ~IsPage(f)
  BY <1>0 DEF srpolicy, IsPage
<1>2. \A b \in Actors : th[b].pc # "scan"
  BY <1>1, EnvironmentAssumption DEF OwnInv, KillAlone
<1>3. HandOK'
  BY <1>1, <1>2 DEF HandOK, FrameToUse
<1>4. \A f \in Frames : ~IsPage(f)'
  BY <1>1 DEF IsPage
<1>5. Victims = {} /\ Victims' = {}
  BY <1>1, <1>4 DEF Victims, IsPage
<1>6. Victim' = Victim
  BY <1>5 DEF Victim
<1>7. s = <<>> /\ Chain(ft', s)
  <2>1. Chain(ft, s) /\ currpolicy \in {"FIFO", "GCA"}
    BY DEF QueueIs, IInv, TypeOK
  <2>2. CASE currpolicy = "FIFO"
    <3>1. \A f \in Frames : ~In(f, s)
      BY <1>1, <2>2 DEF QueueIs
    <3>2. Len(s) \in Nat /\ \A i \in 1 .. Len(s) : s[i] \in Frames /\ In(s[i], s)
      BY <2>1, ChainElements
    <3>3. Len(s) = 0
      <4>1. Len(s) # 0 => 1 \in 1 .. Len(s)
        BY <3>2
      <4> QED BY <3>1, <3>2, <4>1
    <3> QED BY <1>1, <2>1, <3>3, EmptySeq
  <2>3. CASE currpolicy = "GCA"
    BY <1>1, <2>1, <2>3 DEF QueueIs
  <2> QED BY <2>1, <2>2, <2>3
<1>8. \A f : ~In(f, s)
  BY <1>7 DEF In
<1>9. QueueIs(s)'
  BY <1>4, <1>7, <1>8 DEF QueueIs
<1>10. QueueStep(s, Victim, s, Victim')
  BY <1>6 DEF QueueStep
<1> QED BY <1>3, <1>9, <1>10 DEF Moves

-----------------------------------------------------------------------------
(* The queue as a whole. *)

\* Each step of the kernel is a step of the queue, or none.
LEMMA StepQueue ==
  ASSUME ~SwitchWhileLive, IInv, IInv', OwnInv, HandOK, NEW s \in Seq(Frames), QueueIs(s), [Next]_vars
  PROVE  HandOK' /\ Moves(s)
<1>1. ASSUME NEW p \in Procs, Access(p) \/ Retry(p) PROVE HandOK' /\ Moves(s)
  BY <1>1, UserQueue
<1>2. ASSUME NEW p \in Procs, FaultStep(p) PROVE HandOK' /\ Moves(s)
  <2>0. p \in Actors
    BY Kinds
  <2>1. CASE PfHandler(p)
    BY <2>1, UserQueue
  <2>2. CASE NewPageTable(p)
    <3>1. At(p, "init") /\ InitFrame(p) /\ Others(p) /\ th'[p].pc = "alloc"
      BY <2>2, NewPageTableEffect
    <3>2. currpolicy' = currpolicy
      BY <2>2 DEF NewPageTable
    <3>3. th'[p].pc \in {"alloc", "read_bs", "init_pd"}
      BY <3>1
    <3> QED BY <2>0, <3>1, <3>2, <3>3, InitQueue
  <2>3. CASE LoadPage(p)
    <3>1. Still \/ (At(p, "init") /\ InitFrame(p) /\ Others(p) /\ th'[p].pc = "read_bs")
      BY <2>3, LoadPageEffect
    <3>2. currpolicy' = currpolicy
      BY <2>3 DEF LoadPage, Stop
    <3>3. th'[p].pc = "read_bs" => th'[p].pc \in {"alloc", "read_bs", "init_pd"}
      OBVIOUS
    <3>4. CASE Still
      BY <3>2, <3>4, StillQueue
    <3> QED BY <2>0, <3>1, <3>2, <3>3, <3>4, InitQueue
  <2>4. CASE ReadBs(p)
    BY <2>0, <2>4, CountQueue
  <2> QED BY <1>2, <2>1, <2>2, <2>3, <2>4 DEF FaultStep
<1>3. ASSUME NEW a \in Actors, FrameStep(a) PROVE HandOK' /\ Moves(s)
  <2>1. CASE PickVictim(a)
    BY <2>1, PickQueue
  <2>2. CASE Evict(a)
    BY <2>2, CountQueue
  <2> QED BY <1>3, <2>1, <2>2, FrameQueueKept DEF FrameStep
<1>4. ASSUME NEW a \in Actors, KillStep(a) PROVE HandOK' /\ Moves(s)
  BY <1>4, KillQueue, ProcessQueue DEF KillStep
<1>5. ASSUME NEW a \in Actors, NEW p \in Procs, Kill(a, p) PROVE HandOK' /\ Moves(s)
  BY <1>5, CallQueue
<1>6. ASSUME NEW a \in Creators, Vcreate(a) \/ CreateStep(a) \/ srpolicy(a) PROVE HandOK' /\ Moves(s)
  <2>0. a \in Actors
    BY Kinds
  <2>1. CASE Vcreate(a)
    BY <2>0, <2>1, CallQueue
  <2>2. CASE NewPageDirectory(a)
    <3>1. At(a, "init") /\ InitFrame(a) /\ Others(a) /\ th'[a].pc = "init_pd"
      BY <2>2, NewPageDirectoryEffect
    <3>2. currpolicy' = currpolicy
      BY <2>2 DEF NewPageDirectory
    <3>3. th'[a].pc \in {"alloc", "read_bs", "init_pd"}
      BY <3>1
    <3> QED BY <2>0, <3>1, <3>2, <3>3, InitQueue
  <2>3. CASE FinishVcreate(a)
    BY <2>0, <2>3, ProcessQueue
  <2>4. CASE srpolicy(a)
    BY <2>4, PolicyQueue
  <2> QED BY <1>6, <2>1, <2>2, <2>3, <2>4 DEF CreateStep
<1>7. CASE UNCHANGED vars
  <2>1. ft' = ft /\ th' = th /\ currpolicy' = currpolicy
    BY <1>7 DEF vars
  <2>2. HandOK'
    BY <2>1 DEF HandOK, FrameToUse
  <2>3. Victims' = Victims
    BY <2>1 DEF Victims
  <2>4. /\ \A f \in Frames : IsPage(f)' <=> IsPage(f)
        /\ ft'.flistHead = ft.flistHead /\ ft'.flistTail = ft.flistTail
        /\ \A f \in Frames : In(f, s) => /\ ft'.ipt[f].nextFrame = ft.ipt[f].nextFrame
                                         /\ ft'.ipt[f].prevFrame = ft.ipt[f].prevFrame
    BY <2>1 DEF IsPage
  <2> QED BY <2>1, <2>2, <2>3, <2>4, Unmoved
<1> QED BY <1>1, <1>2, <1>3, <1>4, <1>5, <1>6, <1>7, Zenon DEF Next

\* At boot the list is empty and no frame is in hand.
LEMMA BootQueue == Init => HandOK /\ QueueIs(<<>>) /\ Victim = EMPTY
<1> SUFFICES ASSUME Init PROVE HandOK /\ QueueIs(<<>>) /\ Victim = EMPTY
  OBVIOUS
<1>1. \A a \in Actors : th[a].pc = "user"
  BY IdleFields DEF Init
<1>2. /\ ft.flistHead = EMPTY /\ ft.flistTail = EMPTY
      /\ \A f \in Frames : ft.ipt[f].status # "PAGE"
  <2>1. \A f \in Frames : BootFrame(f).status # "PAGE"
    BY DEF BootFrame, Cleared
  <2> QED BY <2>1 DEF Init
<1>3. HandOK
  BY <1>1 DEF HandOK, FrameToUse
<1>4. Victims = {}
  BY <1>2 DEF Victims
<1>5. Victim = EMPTY
  BY <1>4 DEF Victim
<1>6. PICK s \in Seq(Frames) : s = <<>> /\ Len(s) = 0
  <2>1. <<>> \in Seq(Frames) /\ Len(<<>>) = 0
    BY EmptySeq
  <2> QED BY <2>1
<1>7. 1 .. Len(s) = {} /\ \A i : i \notin 1 .. Len(s)
  BY <1>6
<1>8. Chain(ft, s)
  BY <1>2, <1>7 DEF Chain, El
<1>9. \A f \in Frames : ~In(f, s) /\ ~IsPage(f)
  BY <1>2, <1>7 DEF In, IsPage
<1>10. QueueIs(s)
  BY <1>6, <1>8, <1>9 DEF QueueIs
<1> QED BY <1>3, <1>5, <1>6, <1>10

\* The list that the links describe is the one QueueIs speaks of.
ReadsBack == \A s : Chain(ft, s) => Resident = s
LEMMA ReadAll == ReadsBack
BY ReadList DEF ReadsBack

\* QueueInv in the words of PagingFIFO.
LEMMA QueueImplies == IInv /\ QueueInv => QueueLinks
<1> SUFFICES ASSUME IInv, QueueInv, currpolicy = "FIFO" PROVE QueueLinks
  BY DEF QueueLinks
<1> DEFINE page == {f \in Frames : ft.ipt[f].status = "PAGE"}
<1>1. PICK s \in Seq(Frames) : QueueIs(s)
  BY DEF QueueInv
<1>2. Chain(ft, s) /\ Resident = s
  BY <1>1, ReadAll DEF QueueIs, ReadsBack
<1>3. /\ Len(s) \in Nat
      /\ \A i \in 1 .. Len(s) : s[i] \in Frames
      /\ Cardinality({s[i] : i \in 1 .. Len(s)}) = Len(s)
  BY <1>2, ChainLength, ChainElements
<1>4. {s[n] : n \in 1 .. Len(s)} = page \ Victims
  <2>1. \A f \in Frames : In(f, s) <=> f \in page \ Victims
    BY <1>1 DEF QueueIs, IsPage
  <2> QED BY <1>3, <2>1 DEF In
<1>5. Len(s) = 0 => ft.flistTail = EMPTY
  BY <1>2 DEF Chain, El
<1>6. Len(s) > 0 => ft.flistTail = s[Len(s)] /\ ft.ipt[s[1]].prevFrame = EMPTY
  <2>1. Len(s) > 0 => 1 \in 1 .. Len(s) /\ Len(s) \in 1 .. Len(s) /\ 1 - 1 \notin 1 .. Len(s)
    <3>1. Len(s) \in Nat
      BY <1>3
    <3> QED BY ONLY <3>1
  <2>2. Len(s) > 0 => El(s, Len(s)) = s[Len(s)] /\ El(s, 1 - 1) = EMPTY
    BY <2>1 DEF El
  <2> QED BY <1>2, <2>1, <2>2 DEF Chain
<1>7. \A n \in 2 .. Len(s) : ft.ipt[s[n]].prevFrame = s[n - 1]
  <2> SUFFICES ASSUME NEW n \in 2 .. Len(s) PROVE ft.ipt[s[n]].prevFrame = s[n - 1]
    OBVIOUS
  <2>1. n \in 1 .. Len(s) /\ n - 1 \in 1 .. Len(s)
    <3>1. Len(s) \in Nat /\ n \in 2 .. Len(s)
      BY <1>3
    <3> QED BY ONLY <3>1
  <2> QED BY <1>2, <2>1 DEF Chain, El
<1> HIDE DEF page
<1>8. Len(s) = Cardinality(page \ Victims)
  BY <1>3, <1>4
<1> QED BY <1>2, <1>4, <1>5, <1>6, <1>7, <1>8, Zenon DEF QueueLinks, page

\* QueueStep in the words of FrameQueue.
LEMMA AbstractStep ==
  ASSUME NEW s \in Seq(Frames), NEW r \in Seq(Frames), Resident = s, Resident' = r,
         QueueStep(s, Victim, r, Victim')
  PROVE  [Abstract!Next]_(Abstract!vars)
<1>1. CASE s = r /\ Victim' = Victim
  BY <1>1 DEF Abstract!vars
<1>2. ASSUME NEW f \in Frames, Victim = EMPTY, ~In(f, s), r = <<f>> \o s, Victim' = Victim
      PROVE  Abstract!Next
  <2>1. f \notin Abstract!ToSet(s)
    <3>1. Abstract!ToSet(s) = {s[i] : i \in 1 .. Len(s)}
      BY LenProperties DEF Abstract!ToSet
    <3> QED BY <1>2, <3>1 DEF In
  <2>3. Abstract!Load(f)
    BY <1>2, <2>1 DEF Abstract!Load
  <2> QED BY <2>3 DEF Abstract!Next
<1>3. CASE Victim = EMPTY /\ Len(s) > 0 /\ Victim' = s[Len(s)] /\ r = SubSeq(s, 1, Len(s) - 1)
  <2>1. s # <<>>
    BY <1>3, EmptySeq
  <2>2. Abstract!Evict
    BY <1>3, <2>1 DEF Abstract!Evict, Abstract!Last, Abstract!Front
  <2> QED BY <2>2 DEF Abstract!Next
<1>4. CASE Victim # EMPTY /\ Victim' = EMPTY /\ (r = s \/ r = <<Victim>> \o s)
  <2>1. Abstract!Reuse
    BY <1>4 DEF Abstract!Reuse
  <2> QED BY <2>1 DEF Abstract!Next
<1>5. ASSUME NEW k \in 1 .. Len(s), r = SubSeq(s, 1, k - 1) \o SubSeq(s, k + 1, Len(s)), Victim' = Victim
      PROVE  Abstract!Next
  <2>1. Abstract!Release(k)
    BY <1>5 DEF Abstract!Release, Abstract!RemoveAt
  <2>2. k \in DOMAIN Resident
    BY LenProperties
  <2> QED BY <2>1, <2>2 DEF Abstract!Next
<1> QED BY <1>1, <1>2, <1>3, <1>4, <1>5 DEF QueueStep

\* One step of the kernel, seen as a step of FrameQueue.
LEMMA StepRefines ==
  ASSUME ~SwitchWhileLive, IInv, IInv', OwnInv, QueueInv, [Next]_vars
  PROVE  QueueInv' /\ [Abstract!Next]_(Abstract!vars)
<1>1. PICK s \in Seq(Frames) : QueueIs(s)
  BY DEF QueueInv
<1>2. HandOK' /\ Moves(s)
  BY <1>1, StepQueue DEF QueueInv
<1>3. PICK r \in Seq(Frames) : QueueIs(r)' /\ QueueStep(s, Victim, r, Victim')
  BY <1>2 DEF Moves
<1>4. QueueInv'
  BY <1>2, <1>3 DEF QueueInv
<1>5. Resident = s
  BY <1>1, ReadAll DEF QueueIs, ReadsBack
<1>6. ReadsBack'
  BY ReadAll, PTL
<1>7. Chain(ft, r)'
  BY <1>3 DEF QueueIs
<1>8. Resident' = r
  BY <1>6, <1>7 DEF ReadsBack
<1> QED BY <1>3, <1>4, <1>5, <1>8, AbstractStep

\* The list of the resident pages is sound as long as no kill meets a call that
\* works for its victim and the policy is changed only when no page is resident.
THEOREM QueueLinksSound ==
  ASSUME ~KillRaces, ~SwitchWhileLive
  PROVE  Spec => []QueueLinks
<1>1. Init => IInv /\ OwnInv /\ QueueInv
  <2>1. <<>> \in Seq(Frames)
    BY EmptySeq
  <2> QED BY <2>1, InitInv, InitOwn, BootQueue DEF QueueInv
<1>2. IInv /\ OwnInv /\ QueueInv /\ [Next]_vars => (IInv /\ OwnInv /\ QueueInv)'
  BY StepInv, StepOwn, StepRefines
<1>3. IInv /\ QueueInv => QueueLinks
  BY QueueImplies
<1> QED BY <1>1, <1>2, <1>3, PTL DEF Spec

\* The linked list of ipt.c implements FrameQueue: the victim of an eviction is the page
\* loaded first, and a killed process's pages leave from where they are.
THEOREM FIFOImplemented ==
  ASSUME ~KillRaces, ~SwitchWhileLive
  PROVE  Spec => FIFOReplacement
<1>1. Init => IInv /\ OwnInv /\ QueueInv /\ Abstract!Init
  <2>1. <<>> \in Seq(Frames)
    BY EmptySeq
  <2>2. Init => Abstract!Init
    BY <2>1, BootQueue, ReadAll DEF QueueIs, ReadsBack, Abstract!Init
  <2> QED BY <2>1, <2>2, InitInv, InitOwn, BootQueue DEF QueueInv
<1>2. IInv /\ OwnInv /\ QueueInv /\ [Next]_vars =>
        (IInv /\ OwnInv /\ QueueInv)' /\ [Abstract!Next]_(Abstract!vars)
  BY StepInv, StepOwn, StepRefines
<1> QED BY <1>1, <1>2, PTL DEF Spec, FIFOReplacement, Abstract!Spec

-----------------------------------------------------------------------------
(* Nothing goes out of control. *)

\* Page tables and page directories never fill memory: each process has one directory
\* and at most one page table for each entry of it.
EnoughFrames == NUM_GLOBAL + 1 + NPROC * (1 + Cardinality(Tables)) < NFRAMES

\* The heap of a live process lies in pages of stores that are allocated and large enough.
Backed == \A p \in Procs : Live(p) =>
            \A v \in 0 .. proc[p].hsize - 1 : BsValid(BsOf(p, v), BsOff(v))

\* An entry that is dirty has been accessed: the MMU sets both bits, and the clock clears
\* the dirty bit first.
BitsOK(e) == e.pt_dirty = 1 => e.pt_acc = 1
DirtyUsed == \A f \in Frames, j \in Slots : BitsOK(pt[f][j])

\* A table that belongs to no process was made at boot; a process has one directory.
BootTables == \A f \in Frames :
                ft.ipt[f].status \in {"PTAB", "PDIR"} => f <= NUM_GLOBAL \/ ft.ipt[f].pid \in Procs
DirectoryOf(f, p) == ft.ipt[f].status = "PDIR" /\ ft.ipt[f].pid = p
OneDirectory == \A f, g \in Frames, p \in Procs : DirectoryOf(f, p) /\ DirectoryOf(g, p) => f = g

\* How many times the clock still passes frame f before it takes it, and how many frames
\* it looks at until then: a page loses one bit each time.
FrameEntry(f) == EntryOf(ft.ipt[f].pid, ft.ipt[f].vpn)
Rounds(f) == IF ft.ipt[f].status = "NOT_USED" THEN 0
             ELSE FrameEntry(f).pt_acc + FrameEntry(f).pt_dirty
Usable(f) == ft.ipt[f].status \in {"NOT_USED", "PAGE"}
Turns(l, f) == l.i + Rounds(f) * NFRAMES + Distance(nextframe.gca, f) <= 3 * NFRAMES - 1
ClockTurns == \A a \in Actors : th[a].pc = "scan" =>
                \A f \in Frames : Usable(f) => Turns(th[a], f)

Calmed == Backed /\ DirtyUsed /\ BootTables /\ OneDirectory
SafeInv == NoFatal /\ Calmed /\ ClockTurns

\* The page directory entries of a heap are finitely many.
LEMMA TablesFinite == IsFiniteSet(Tables) /\ Cardinality(Tables) \in Nat /\ Tables \subseteq Nat
<1>1. \A v \in Pages : v \div PAGETABSIZE \in Nat /\ v \div PAGETABSIZE <= MAXHEAP
  <2> SUFFICES ASSUME NEW v \in Pages PROVE v \div PAGETABSIZE \in Nat /\ v \div PAGETABSIZE <= MAXHEAP
    OBVIOUS
  <2>1. PICK b \in Nat \ {0}, n \in Nat : b = PAGETABSIZE /\ n = MAXHEAP /\ v \in 0 .. n
    BY SizesAssumption DEF Pages
  <2>2. v \div b \in Nat /\ v \div b <= n
    BY ONLY <2>1
  <2> QED BY <2>1, <2>2
<1>2. Tables \in SUBSET Nat /\ MAXHEAP \in Nat /\ \A s \in Tables : s <= MAXHEAP
  BY <1>1, SizesAssumption DEF Tables
<1>3. IsFiniteSet(Tables)
  BY <1>2, FS_BoundedSetOfNaturals
<1> QED BY <1>2, <1>3, FS_CardinalityType

\* Some frame is unused or holds a page.
LEMMA FrameLeft ==
  ASSUME EnoughFrames, IInv, Counts, BootTables, OneDirectory
  PROVE  \E f \in Frames : Usable(f)
<1> DEFINE pid(f) == ft.ipt[f].pid
           points(f, i) == pd[pid(f)][i] = [pd_pres |-> 1, pd_base |-> f]
           boot == (0 .. NUM_GLOBAL) \X {-2}
           own == Procs \X (Tables \cup {-1})
           name == [f \in Frames |->
                      IF pid(f) \notin Procs THEN <<f, -2>>
                      ELSE IF ft.ipt[f].status = "PDIR" THEN <<pid(f), -1>>
                      ELSE <<pid(f), CHOOSE i \in Tables : points(f, i)>>]
<1> SUFFICES ASSUME \A f \in Frames : ~Usable(f) PROVE FALSE
  OBVIOUS
<1>1. \A f \in Frames : ft.ipt[f].status \in {"PTAB", "PDIR"}
  BY DEF IInv, TypeOK, FrameRec, Statuses, Usable
<1>2. \A f \in Frames : pid(f) \in Procs /\ ft.ipt[f].status # "PDIR" => \E i \in Tables : points(f, i)
  BY <1>1 DEF Counts
<1>3. /\ IsFiniteSet(boot) /\ Cardinality(boot) = NUM_GLOBAL + 1
      /\ IsFiniteSet(own) /\ Cardinality(own) = NPROC * (Cardinality(Tables) + 1)
  <2>1. IsFiniteSet(0 .. NUM_GLOBAL) /\ Cardinality(0 .. NUM_GLOBAL) = NUM_GLOBAL + 1
    BY SizesAssumption, FS_Interval
  <2>2. IsFiniteSet({-2}) /\ Cardinality({-2}) = 1
    BY FS_Singleton
  <2>3. IsFiniteSet(Procs) /\ Cardinality(Procs) = NPROC
    BY SizesAssumption, FS_Interval DEF Procs
  <2>4. IsFiniteSet(Tables \cup {-1}) /\ Cardinality(Tables \cup {-1}) = Cardinality(Tables) + 1
    <3>1. -1 \notin Tables
      BY TablesFinite
    <3> QED BY <3>1, TablesFinite, FS_AddElement
  <2>5. IsFiniteSet(boot) /\ Cardinality(boot) = NUM_GLOBAL + 1
    <3>1. /\ IsFiniteSet(boot)
          /\ Cardinality(boot) = Cardinality(0 .. NUM_GLOBAL) * Cardinality({-2})
      BY ONLY <2>1, <2>2, FS_Product, Zenon
    <3>2. PICK n \in Nat : n = NUM_GLOBAL
      BY SizesAssumption
    <3>3. Cardinality(boot) = (n + 1) * 1
      BY <2>1, <2>2, <3>1, <3>2
    <3>4. (n + 1) * 1 = n + 1
      BY ONLY <3>2
    <3> QED BY ONLY <3>1, <3>2, <3>3, <3>4
  <2>6. IsFiniteSet(own) /\ Cardinality(own) = NPROC * (Cardinality(Tables) + 1)
    BY <2>3, <2>4, FS_Product
  <2> QED BY <2>5, <2>6, SizesAssumption
<1>4. IsFiniteSet(boot \cup own) /\ Cardinality(boot \cup own) < NFRAMES
  <2>1. /\ IsFiniteSet(boot \cup own)
        /\ Cardinality(boot \cup own) = Cardinality(boot) + Cardinality(own) - Cardinality(boot \cap own)
    BY <1>3, FS_Union
  <2>2. IsFiniteSet(boot \cap own) /\ Cardinality(boot \cap own) \in Nat
    BY <1>3, FS_Intersection, FS_CardinalityType
  <2>3. PICK g \in Nat, n \in Nat, t \in Nat, fr \in Nat, m \in Nat :
          /\ g = NUM_GLOBAL /\ n = NPROC /\ t = Cardinality(Tables) /\ fr = NFRAMES
          /\ m = Cardinality(boot \cap own)
    BY <2>2, SizesAssumption, TablesFinite
  <2>4. Cardinality(boot \cup own) = (g + 1) + n * (t + 1) - m /\ g + 1 + n * (1 + t) < fr
    BY <1>3, <2>1, <2>3 DEF EnoughFrames
  <2>5. n * (t + 1) = n * (1 + t)
    BY ONLY <2>3
  <2>6. PICK z \in Int : z = n * (t + 1)
    BY <2>3
  <2>7. g + 1 + z - m < fr
    BY ONLY <2>3, <2>4, <2>5, <2>6
  <2> QED BY <2>1, <2>3, <2>4, <2>6, <2>7
<1>5. IsFiniteSet(Frames) /\ Cardinality(Frames) = NFRAMES
  <2>1. PICK n \in Nat \ {0} : n = NFRAMES
    BY SizesAssumption
  <2>2. IsFiniteSet(0 .. n - 1) /\ Cardinality(0 .. n - 1) = n
    BY FS_Interval
  <2> QED BY <2>1, <2>2 DEF Frames
<1>6. name \in [Frames -> boot \cup own]
  <2> SUFFICES ASSUME NEW f \in Frames PROVE name[f] \in boot \cup own
    OBVIOUS
  <2>1. CASE pid(f) \notin Procs
    <3>1. f \in 0 .. NUM_GLOBAL
      BY <1>1, <2>1, SizesAssumption DEF BootTables, Frames
    <3> QED BY <2>1, <3>1
  <2>2. CASE pid(f) \in Procs /\ ft.ipt[f].status = "PDIR"
    BY <2>2
  <2>3. CASE pid(f) \in Procs /\ ft.ipt[f].status # "PDIR"
    <3>1. PICK i \in Tables : i = CHOOSE k \in Tables : points(f, k)
      BY <1>2, <2>3
    <3>2. name[f] = <<pid(f), i>>
      BY <2>3, <3>1
    <3> HIDE DEF name, points, pid
    <3>3. i \in Tables \cup {-1} /\ pid(f) \in Procs
      BY <2>3, <3>1
    <3>4. <<pid(f), i>> \in own
      BY ONLY <3>3
    <3> QED BY ONLY <3>2, <3>4
  <2> QED BY <2>1, <2>2, <2>3
<1>7. PICK f \in Frames, g \in Frames : f # g /\ name[f] = name[g]
  <2> HIDE DEF name, boot, own
  <2> QED BY <1>4, <1>5, <1>6, FS_PigeonHole
<1>8. \A h \in Frames : /\ pid(h) \notin Procs => name[h][1] = h /\ name[h][2] = -2
                        /\ pid(h) \in Procs => name[h][1] = pid(h)
                        /\ pid(h) \in Procs /\ ft.ipt[h].status = "PDIR" => name[h][2] = -1
                        /\ pid(h) \in Procs /\ ft.ipt[h].status # "PDIR" =>
                             name[h][2] \in Tables /\ points(h, name[h][2])
  <2> SUFFICES ASSUME NEW h \in Frames
               PROVE  /\ pid(h) \notin Procs => name[h][1] = h /\ name[h][2] = -2
                      /\ pid(h) \in Procs => name[h][1] = pid(h)
                      /\ pid(h) \in Procs /\ ft.ipt[h].status = "PDIR" => name[h][2] = -1
                      /\ pid(h) \in Procs /\ ft.ipt[h].status # "PDIR" =>
                           name[h][2] \in Tables /\ points(h, name[h][2])
    OBVIOUS
  <2>1. pid(h) \in Procs /\ ft.ipt[h].status # "PDIR" =>
          /\ (CHOOSE i \in Tables : points(h, i)) \in Tables
          /\ points(h, CHOOSE i \in Tables : points(h, i))
    BY <1>2
  <2> HIDE DEF points
  <2> QED BY <2>1
<1> HIDE DEF name, points, boot, own, pid
<1>9. \A i \in Tables : i # -1 /\ i # -2
  BY TablesFinite
<1>10. pid(f) \in Procs /\ pid(g) \in Procs /\ pid(f) = pid(g)
  <2>1. pid(f) \notin Procs => pid(g) \notin Procs
    BY <1>7, <1>8, <1>9
  <2>2. pid(g) \notin Procs => pid(f) \notin Procs
    BY <1>7, <1>8, <1>9
  <2> QED BY <1>7, <1>8, <2>1, <2>2
<1>11. CASE ft.ipt[f].status = "PDIR"
  <2>1. ft.ipt[g].status = "PDIR"
    BY <1>7, <1>8, <1>9, <1>10, <1>11
  <2> QED BY <1>7, <1>10, <1>11, <2>1 DEF OneDirectory, DirectoryOf, pid
<1>12. CASE ft.ipt[f].status # "PDIR"
  <2>1. ft.ipt[g].status # "PDIR"
    BY <1>7, <1>8, <1>9, <1>10, <1>12
  <2>2. PICK i : points(f, i) /\ points(g, i)
    BY <1>7, <1>8, <1>10, <1>12, <2>1
  <2> QED BY <1>7, <1>10, <2>2 DEF points, pid
<1> QED BY <1>11, <1>12

-----------------------------------------------------------------------------
(* What a step keeps. *)

\* A frame keeps its role, stops being a table, or becomes a page table of a process.
RolesKept ==
  \A f \in Frames : \/ ft'.ipt[f].status = ft.ipt[f].status /\ ft'.ipt[f].pid = ft.ipt[f].pid
                    \/ ft'.ipt[f].status \in {"NOT_USED", "PAGE"}
                    \/ ft'.ipt[f].status = "PTAB" /\ ft'.ipt[f].pid \in Procs
NobodyScans == \A a \in Actors : th[a].pc # "scan"
Harmless == fatal' = fatal /\ Backed' /\ DirtyUsed' /\ RolesKept /\ NobodyScans'

\* Such a step keeps the invariant.
LEMMA HarmlessSafe ==
  ASSUME SafeInv, Harmless
  PROVE  SafeInv'
<1>1. NoFatal' /\ Backed' /\ DirtyUsed' /\ ClockTurns'
  BY DEF SafeInv, NoFatal, Harmless, NobodyScans, ClockTurns
<1>2. BootTables'
  <2> SUFFICES ASSUME NEW f \in Frames, ft'.ipt[f].status \in {"PTAB", "PDIR"}
               PROVE  f <= NUM_GLOBAL \/ ft'.ipt[f].pid \in Procs
    BY Zenon DEF BootTables
  <2>1. \/ ft'.ipt[f].status = ft.ipt[f].status /\ ft'.ipt[f].pid = ft.ipt[f].pid
        \/ ft'.ipt[f].pid \in Procs
    BY DEF Harmless, RolesKept
  <2>2. ft.ipt[f].status \in {"PTAB", "PDIR"} => f <= NUM_GLOBAL \/ ft.ipt[f].pid \in Procs
    BY Zenon DEF SafeInv, Calmed, BootTables
  <2> QED BY ONLY <2>1, <2>2, ft'.ipt[f].status \in {"PTAB", "PDIR"}
<1>3. OneDirectory'
  <2>1. \A f \in Frames : ft'.ipt[f].status = "PDIR" =>
          ft.ipt[f].status = "PDIR" /\ ft'.ipt[f].pid = ft.ipt[f].pid
    BY DEF Harmless, RolesKept
  <2>2. \A f \in Frames, p \in Procs : DirectoryOf(f, p)' => DirectoryOf(f, p)
    BY <2>1 DEF DirectoryOf
  <2> QED BY <2>2 DEF OneDirectory, SafeInv, Calmed
<1> QED BY <1>1, <1>2, <1>3 DEF SafeInv, Calmed

\* The stores and the heaps are left alone.
LEMMA BackedKept == ASSUME Backed, UNCHANGED <<proc, bstab>> PROVE Backed'
BY DEF Backed, BsValid, BsOf, Live

\* So are the page tables.
LEMMA DirtySame == ASSUME DirtyUsed, pt' = pt PROVE DirtyUsed'
BY DEF DirtyUsed

\* One entry is assigned to.
LEMMA DirtyOne ==
  ASSUME IInv, DirtyUsed, NEW t, NEW j, NEW x, pt' = [pt EXCEPT ![t][j] = x],
         t \in Frames /\ j \in Slots => BitsOK(x)
  PROVE  DirtyUsed'
<1>1. pt \in [Frames -> [Slots -> PTE]]
  BY DEF IInv, TypeOK
<1>2. \A f \in Frames, k \in Slots : pt'[f][k] = IF f = t /\ k = j THEN x ELSE pt[f][k]
  BY <1>1
<1> QED BY <1>2 DEF DirtyUsed

\* A frame is blanked.
LEMMA DirtyBlank ==
  ASSUME IInv, DirtyUsed, NEW g, pt' = [pt EXCEPT ![g] = [j \in Slots |-> NoPTE]]
  PROVE  DirtyUsed'
<1>1. pt \in [Frames -> [Slots -> PTE]] /\ BitsOK(NoPTE)
  BY DEF IInv, TypeOK, BitsOK, NoPTE
<1>2. \A f \in Frames, k \in Slots : pt'[f][k] = IF f = g THEN NoPTE ELSE pt[f][k]
  BY <1>1
<1> QED BY <1>1, <1>2 DEF DirtyUsed

\* The updates of an entry keep it so.
LEMMA BitsUpdates ==
  ASSUME NEW e \in PTE, BitsOK(e)
  PROVE  /\ \A w : BitsOK(Touched(e, w))
         /\ BitsOK(Aged(e)) /\ UM(e) # "panic"
         /\ BitsOK(MarkAbsent(e))
         /\ BitsOK([e EXCEPT !.pt_dirty = 0, !.pt_avail = 0])
         /\ \A f : BitsOK([e EXCEPT !.pt_pres = 1, !.pt_base = f])
BY DEF PTE, BitsOK, Touched, Aged, UM, MarkAbsent

\* Entries that agree.
LEMMA SameRoles == ASSUME \A f \in Frames : SameEntry(ft, ft', f) PROVE RolesKept
BY DEF SameEntry, RolesKept

\* No process is in the loop of getNewFrameGCA when one that is not in it runs.
LEMMA NotScanning ==
  ASSUME OwnInv, NEW a \in Actors, MayRun(a), th[a].pc # "scan",
         \A b \in Actors : th'[b] = th[b] \/ th'[b].pc # "scan"
  PROVE  NobodyScans'
BY AloneFacts DEF OwnInv, NobodyScans

\* The kernel does not stop, and nothing that matters here changes.
LEMMA StillSafe ==
  ASSUME OwnInv, SafeInv, NEW a \in Actors, MayRun(a), th[a].pc # "scan", Still, fatal' = fatal
  PROVE  SafeInv'
<1>1. NobodyScans'
  BY NotScanning DEF Still
<1>2. Backed' /\ DirtyUsed' /\ RolesKept
  BY BackedKept, DirtySame DEF Still, SafeInv, Calmed, RolesKept
<1> QED BY <1>1, <1>2, HarmlessSafe DEF Harmless

\* A step of one process that leaves the heaps, the page tables and the roles of the
\* frames alone.
LEMMA QuietSafe ==
  ASSUME OwnInv, SafeInv, NEW a \in Actors, MayRun(a), th[a].pc # "scan", Others(a), th'[a].pc # "scan",
         UNCHANGED <<proc, bstab>>, DirtyUsed', RolesKept, fatal' = fatal
  PROVE  SafeInv'
<1>1. NobodyScans'
  BY NotScanning DEF Others
<1>2. Backed'
  BY BackedKept DEF SafeInv, Calmed
<1> QED BY <1>1, <1>2, HarmlessSafe DEF Harmless

\* Users, faults and the calls.
LEMMA UserSafe ==
  ASSUME IInv, OwnInv, SafeInv, NEW p \in Procs, Access(p) \/ Retry(p)
  PROVE  SafeInv'
<1>1. /\ p \in Actors /\ MayRun(p) /\ th[p].pc # "scan"
      /\ \E v \in Pages, w \in Values \cup {NOWRITE} :
           \/ Mapped(p, v) /\ Perform(p, v, w)
           \/ ~Mapped(p, v) /\ PageFault(p, v, w)
  BY UserEffect
<1>2. PICK v \in Pages, w \in Values \cup {NOWRITE} :
        \/ Mapped(p, v) /\ Perform(p, v, w)
        \/ ~Mapped(p, v) /\ PageFault(p, v, w)
  BY <1>1
<1>3. DirtyUsed /\ pt \in [Frames -> [Slots -> PTE]]
  BY DEF SafeInv, Calmed, IInv, TypeOK
<1>4. CASE Mapped(p, v) /\ Perform(p, v, w)
  <2>1. /\ th'[p] = Idle /\ Others(p) /\ UNCHANGED <<ft, bstab, proc>>
    BY <1>4, PerformEffect
  <2>2. fatal' = fatal
    BY <1>4 DEF Perform
  <2>3. DirtyUsed'
    <3> DEFINE t == pd[p][vaddr2pdi(v)].pd_base
               j == vaddr2pti(v)
    <3>1. pt' = [pt EXCEPT ![t][j] = Touched(pt[t][j], w)]
      BY <1>4 DEF Perform
    <3>2. t \in Frames /\ j \in Slots => BitsOK(Touched(pt[t][j], w))
      BY <1>3, BitsUpdates DEF DirtyUsed
    <3> HIDE DEF t, j
    <3> QED BY <1>3, <3>1, <3>2, DirtyOne
  <2>4. RolesKept /\ th'[p].pc # "scan"
    BY <2>1 DEF RolesKept, Idle
  <2> QED BY <1>1, <2>1, <2>2, <2>3, <2>4, QuietSafe
<1>5. CASE PageFault(p, v, w)
  <2>1. /\ th'[p].pc = "pf" /\ Others(p) /\ UNCHANGED <<ft, pt, bstab, proc>>
    BY <1>5, PageFaultEffect
  <2>2. fatal' = fatal
    BY <1>5 DEF PageFault
  <2>3. DirtyUsed' /\ RolesKept
    BY <1>3, <2>1, DirtySame DEF RolesKept
  <2> QED BY <1>1, <2>1, <2>2, <2>3, QuietSafe
<1> QED BY <1>2, <1>4, <1>5

\* pf_handler up to its first frame, the call of vcreate, the start of kill, and srpolicy.
LEMMA CallSafe ==
  ASSUME IInv, OwnInv, SafeInv, NEW a \in Actors,
         \/ a \in Procs /\ PfHandler(a)
         \/ a \in Creators /\ (Vcreate(a) \/ srpolicy(a))
         \/ \E p \in Procs : Kill(a, p)
  PROVE  SafeInv'
<1>1. MayRun(a) /\ th[a].pc # "scan"
  BY KillEffect DEF PfHandler, Vcreate, srpolicy, At
<1>2. fatal' = fatal
  BY DEF PfHandler, Vcreate, srpolicy, Kill
<1>3. CASE Still
  BY <1>1, <1>2, <1>3, StillSafe
<1>4. CASE ~Still
  <2>1. /\ Others(a) /\ th'[a].pc # "scan" /\ UNCHANGED <<ft, pt, proc, bstab>>
    <3>1. CASE a \in Procs /\ PfHandler(a)
      BY <3>1, PfHandlerEffect
    <3>2. CASE a \in Creators /\ Vcreate(a)
      BY <1>4, <3>2, VcreateEffect
    <3>3. CASE a \in Creators /\ srpolicy(a)
      BY <1>4, <3>3 DEF srpolicy, Still
    <3>4. CASE \E p \in Procs : Kill(a, p)
      BY <3>4, KillEffect
    <3> QED BY <3>1, <3>2, <3>3, <3>4
  <2>2. DirtyUsed' /\ RolesKept
    BY <2>1, DirtySame DEF RolesKept, SafeInv, Calmed
  <2> QED BY <1>1, <1>2, <2>1, <2>2, QuietSafe
<1> QED BY <1>3, <1>4

-----------------------------------------------------------------------------
(* getNewFrame and evictFrame. *)

\* The page table entry of a resident page, seen by a process that looks for a frame.
LEMMA ResidentEntry ==
  ASSUME IInv, OwnInv, TableInv, NEW a \in Actors, MayRun(a), th[a].pc \in {"alloc", "scan", "evict"},
         NEW f \in Frames, ft.ipt[f].status = "PAGE"
  PROVE  LET q == ft.ipt[f].pid
             v == ft.ipt[f].vpn
             t == pd[q][vaddr2pdi(v)].pd_base
         IN  /\ q \in Procs /\ Live(q) /\ v \in Pages /\ v < proc[q].hsize
             /\ t \in Frames /\ vaddr2pti(v) \in Slots
             /\ FrameEntry(f) \in PTE /\ FrameEntry(f).pt_base = f
             /\ FrameEntry(f) = pt[t][vaddr2pti(v)]
<1> DEFINE q == ft.ipt[f].pid
           v == ft.ipt[f].vpn
<1>1. ~Taken(f)
  <2>1. ~Queued(a) /\ th[a].pc \in FaultPath /\ ~Transit(a)
    BY DEF MayRun, FaultPath, Transit
  <2> QED BY <2>1, OneInTransit DEF Taken
<1>2. q \in Procs /\ Live(q) /\ v \in Pages /\ v < proc[q].hsize /\ Mapped(q, v) /\ FrameOf(q, v) = f
  BY <1>1 DEF TableInv, PagesMapped
<1>3. pd[q][vaddr2pdi(v)].pd_base \in Frames /\ vaddr2pti(v) \in Slots
      /\ FrameOf(q, v) = pt[pd[q][vaddr2pdi(v)].pd_base][vaddr2pti(v)].pt_base
  <2> HIDE DEF q, v
  <2> QED BY <1>2, Walk
<1>4. FrameEntry(f) = pt[pd[q][vaddr2pdi(v)].pd_base][vaddr2pti(v)]
  BY DEF FrameEntry, EntryOf
<1>5. pt \in [Frames -> [Slots -> PTE]]
  BY DEF IInv, TypeOK
<1> HIDE DEF q, v
<1>6. FrameEntry(f) \in PTE /\ FrameEntry(f).pt_base = f
  <2>1. PICK b \in Frames, i \in Slots : b = pd[q][vaddr2pdi(v)].pd_base /\ i = vaddr2pti(v)
    BY <1>3
  <2>2. FrameEntry(f) = pt[b][i] /\ pt[b][i] \in PTE
    BY <1>4, <1>5, <2>1
  <2>3. pt[b][i].pt_base = f
    BY <1>2, <1>3, <2>1
  <2> QED BY <2>2, <2>3
<1> QED BY <1>2, <1>3, <1>4, <1>6 DEF q, v

\* The same for the bits: the clock passes a page at most twice.
LEMMA RoundsBound ==
  ASSUME IInv, OwnInv, TableInv, NEW a \in Actors, MayRun(a), th[a].pc \in {"alloc", "scan"},
         NEW f \in Frames, Usable(f)
  PROVE  Rounds(f) \in 0 .. 2
<1>1. CASE ft.ipt[f].status = "NOT_USED"
  BY <1>1 DEF Rounds
<1>2. CASE ft.ipt[f].status = "PAGE"
  <2>1. FrameEntry(f) \in PTE
    BY <1>2, ResidentEntry
  <2>2. FrameEntry(f).pt_acc \in {0, 1} /\ FrameEntry(f).pt_dirty \in {0, 1}
    BY <2>1 DEF PTE
  <2>3. Rounds(f) = FrameEntry(f).pt_acc + FrameEntry(f).pt_dirty
    BY <1>2 DEF Rounds
  <2> QED BY ONLY <2>2, <2>3
<1> QED BY <1>1, <1>2 DEF Usable

\* Distances on the clock.
LEMMA Distances ==
  ASSUME NEW c \in Frames, NEW f \in Frames
  PROVE  /\ Distance(c, f) \in 0 .. NFRAMES - 1
         /\ f # c => Distance(NextFrame(c), f) = Distance(c, f) - 1
         /\ Distance(NextFrame(c), c) = NFRAMES - 1 /\ Distance(c, c) = 0
<1>1. PICK n \in Nat \ {0} : n = NFRAMES
  BY SizesAssumption
<1>2. c \in 0 .. n - 1 /\ f \in 0 .. n - 1
  BY <1>1 DEF Frames
<1>3. \A g \in 0 .. n - 1 : (g + n) % n = g /\ g % n = g /\ n % n = 0
  BY ONLY <1>1
<1>4. \A b, g \in 0 .. n - 1 : (g + n - b) % n = IF g >= b THEN g - b ELSE g + n - b
  <2> SUFFICES ASSUME NEW b \in 0 .. n - 1, NEW g \in 0 .. n - 1
               PROVE  (g + n - b) % n = IF g >= b THEN g - b ELSE g + n - b
    BY <1>1
  <2>1. CASE g >= b
    <3>1. PICK k \in 0 .. n - 1 : k = g - b
      BY ONLY <1>1, <2>1, b \in 0 .. n - 1, g \in 0 .. n - 1
    <3>2. g + n - b = k + n
      BY ONLY <1>1, <3>1, b \in 0 .. n - 1, g \in 0 .. n - 1
    <3> QED BY ONLY <1>3, <2>1, <3>1, <3>2
  <2>2. CASE ~(g >= b)
    <3>1. PICK k \in 0 .. n - 1 : k = g + n - b
      BY ONLY <1>1, <2>2, b \in 0 .. n - 1, g \in 0 .. n - 1
    <3> QED BY ONLY <1>3, <2>2, <3>1
  <2> QED BY <2>1, <2>2
<1>5. (c + 1) % n = IF c = n - 1 THEN 0 ELSE c + 1
  BY ONLY <1>1, <1>2, <1>3
<1>6. PICK d \in 0 .. n - 1 : d = NextFrame(c) /\ d = IF c = n - 1 THEN 0 ELSE c + 1
  BY <1>1, <1>2, <1>5 DEF NextFrame
<1>7. /\ Distance(c, f) = IF f >= c THEN f - c ELSE f + n - c
      /\ Distance(NextFrame(c), f) = IF f >= d THEN f - d ELSE f + n - d
      /\ Distance(NextFrame(c), c) = IF c >= d THEN c - d ELSE c + n - d
      /\ Distance(c, c) = IF c >= c THEN c - c ELSE c + n - c
  <2>1. \A b, g \in 0 .. n - 1 : Distance(b, g) = IF g >= b THEN g - b ELSE g + n - b
    BY <1>1, <1>4 DEF Distance
  <2>2. NextFrame(c) = d
    BY <1>6
  <2> QED BY ONLY <1>2, <2>1, <2>2, d \in 0 .. n - 1
<1>8. IF f >= c THEN f - c \in 0 .. n - 1 ELSE f + n - c \in 0 .. n - 1
  BY ONLY <1>1, <1>2
<1>9. f # c => (IF f >= d THEN f - d ELSE f + n - d) = (IF f >= c THEN f - c ELSE f + n - c) - 1
  BY ONLY <1>1, <1>2, <1>6
<1>10. (IF c >= d THEN c - d ELSE c + n - d) = n - 1 /\ (IF c >= c THEN c - c ELSE c + n - c) = 0
  BY ONLY <1>1, <1>2, <1>6
<1> QED BY <1>1, <1>7, <1>8, <1>9, <1>10

\* getNewFrameGCA starts with three rounds ahead of it.
LEMMA StartScanSafe ==
  ASSUME IInv, OwnInv, TableInv, SafeInv, NEW a \in Actors, StartScan(a)
  PROVE  SafeInv'
<1>1. /\ At(a, "alloc") /\ Others(a) /\ UNCHANGED <<ft, pd, pt, proc, bstab>>
  BY StartScanEffect
<1>2. nextframe' = nextframe /\ fatal' = fatal /\ nextframe.gca \in Frames
  BY DEF StartScan, IInv, TypeOK
<1>3. th'[a].i = 0
  BY DEF StartScan, IInv, TypeOK
<1>4. NoFatal' /\ Backed' /\ DirtyUsed' /\ BootTables' /\ OneDirectory'
  <2>1. NoFatal' /\ BootTables' /\ OneDirectory'
    BY <1>1, <1>2 DEF SafeInv, Calmed, NoFatal, BootTables, OneDirectory, DirectoryOf
  <2> QED BY <1>1, <2>1, BackedKept, DirtySame DEF SafeInv, Calmed
<1>5. ClockTurns'
  <2> SUFFICES ASSUME NEW b \in Actors, th'[b].pc = "scan", NEW f \in Frames, Usable(f)'
               PROVE  Turns(th[b], f)'
    BY DEF ClockTurns
  <2>1. b = a
    BY <1>1, AloneFacts DEF OwnInv, Others, At
  <2>2. Usable(f) /\ Rounds(f)' = Rounds(f)
    BY <1>1 DEF Usable, Rounds, FrameEntry, EntryOf
  <2>3. PICK r \in 0 .. 2, n \in Nat, d \in 0 .. NFRAMES - 1 :
          r = Rounds(f) /\ n = NFRAMES /\ d = Distance(nextframe.gca, f)
    BY <1>1, <1>2, <2>2, RoundsBound, Distances, SizesAssumption DEF At
  <2>4. 0 + r * n + d <= 3 * n - 1
    <3>1. r \in {0, 1, 2} /\ d <= n - 1 /\ d \in Int
      BY <2>3
    <3> QED BY ONLY <2>3, <3>1
  <2> QED BY <1>2, <1>3, <2>1, <2>2, <2>3, <2>4 DEF Turns
<1> QED BY <1>4, <1>5 DEF SafeInv, Calmed

\* One iteration of getNewFrameGCA, which neither stops the kernel nor is the last.
LEMMA ScanCases ==
  ASSUME EnoughFrames, IInv, OwnInv, TableInv, SafeInv, NEW a \in Actors, Scan(a)
  PROVE  LET c == nextframe.gca
             f == ft.ipt[c]
             t == pd[f.pid][vaddr2pdi(f.vpn)].pd_base
             j == vaddr2pti(f.vpn)
         IN  /\ At(a, "scan") /\ Others(a) /\ fatal' = fatal /\ c \in Frames /\ th[a].i \in Nat
             /\ nextframe'.gca = NextFrame(c) /\ UNCHANGED <<ft, pd, proc, bstab>>
             /\ \/ th'[a].pc = "init" /\ pt' = pt
                \/ /\ f.status \in {"PDIR", "PTAB"} /\ pt' = pt
                   /\ th'[a].pc = "scan" /\ th'[a].i = th[a].i + 1
                \/ /\ f.status = "PAGE" /\ pt' = [pt EXCEPT ![t][j] = Aged(pt[t][j])]
                   /\ \/ th'[a].pc = "evict"
                      \/ th'[a].pc = "scan" /\ th'[a].i = th[a].i + 1 /\ UM(pt[t][j]) # "UM00"
<1> DEFINE c == nextframe.gca
           f == ft.ipt[c]
           t == pd[f.pid][vaddr2pdi(f.vpn)].pd_base
           j == vaddr2pti(f.vpn)
<1>1. /\ At(a, "scan") /\ MayRun(a) /\ th[a].pc = "scan" /\ c \in Frames /\ th[a].i \in Nat
      /\ nextframe \in [fifo : Frames, gca : Frames] /\ th \in [Actors -> Thread]
      /\ th[a] \in Thread
  <2>1. th \in [Actors -> Thread] /\ nextframe \in [fifo : Frames, gca : Frames]
    BY DEF IInv, TypeOK
  <2>2. th[a].i \in Nat
    BY <2>1 DEF Thread
  <2> QED BY <2>1, <2>2 DEF Scan, At
<1>2. th[a].i <= ScanLimit
  <2>1. PICK g \in Frames : Usable(g)
    BY FrameLeft DEF TableInv, SafeInv, Calmed
  <2>2. Turns(th[a], g)
    BY <1>1, <2>1 DEF SafeInv, ClockTurns
  <2>3. PICK r \in 0 .. 2, n \in Nat, d \in Nat, i \in Nat :
          r = Rounds(g) /\ n = NFRAMES /\ d = Distance(c, g) /\ i = th[a].i
    BY <1>1, <2>1, RoundsBound, Distances, SizesAssumption
  <2>4. i + r * n + d <= 3 * n - 1
    BY <2>2, <2>3 DEF Turns
  <2>5. PICK z \in Nat : z = r * n
    BY <2>3
  <2>6. i <= 3 * n
    BY ONLY <2>3, <2>4, <2>5
  <2> QED BY <2>3, <2>6 DEF ScanLimit
<1>3. f.status = "PAGE" => ~Skipped(f) /\ t \in Frames /\ UM(pt[t][j]) # "panic"
  <2> SUFFICES ASSUME f.status = "PAGE" PROVE ~Skipped(f) /\ t \in Frames /\ UM(pt[t][j]) # "panic"
    OBVIOUS
  <2>1. f.pid \in Procs /\ f.vpn \in Pages /\ t \in Frames /\ j \in Slots
    BY <1>1, ResidentEntry
  <2>2. ~Skipped(f)
    BY <2>1 DEF Skipped, Procs, Pages, GLOBAL, NO_PROCESS, NO_VPN
  <2>3. pt \in [Frames -> [Slots -> PTE]] /\ \A x \in Frames, y \in Slots : BitsOK(pt[x][y])
    BY DEF SafeInv, Calmed, DirtyUsed, IInv, TypeOK
  <2> HIDE DEF f, t, j
  <2>4. pt[t][j] \in PTE /\ BitsOK(pt[t][j])
    BY <2>1, <2>3
  <2> QED BY <2>1, <2>2, <2>4, BitsUpdates
<1>4. /\ fatal' = fatal /\ nextframe' = [nextframe EXCEPT !.gca = NextFrame(c)]
      /\ UNCHANGED <<ft, pd, proc, bstab>>
      /\ \/ th' = [th EXCEPT ![a] = [@ EXCEPT !.fr = c, !.pc = "init"]] /\ pt' = pt
         \/ /\ f.status \in {"PDIR", "PTAB"} /\ pt' = pt
            /\ th' = [th EXCEPT ![a].i = @ + 1]
         \/ /\ f.status = "PAGE" /\ pt' = [pt EXCEPT ![t][j] = Aged(@)]
            /\ th' = IF UM(pt[t][j]) = "UM00" THEN [th EXCEPT ![a] = [@ EXCEPT !.fr = c, !.pc = "evict"]]
                                              ELSE [th EXCEPT ![a].i = @ + 1]
  <2>1. ~(th[a].i > ScanLimit)
    BY <1>1, <1>2, SizesAssumption DEF ScanLimit
  <2>2. (f.status \in {"PDIR", "PTAB"} \/ (f.status = "PAGE" /\ Skipped(f))) => f.status \in {"PDIR", "PTAB"}
    BY <1>3
  <2> QED BY <1>3, <2>1, <2>2, Zenon DEF Scan
<1>5. nextframe'.gca = NextFrame(c)
  BY <1>1, <1>4
<1>6. pt' = [pt EXCEPT ![t][j] = Aged(@)] <=> pt' = [pt EXCEPT ![t][j] = Aged(pt[t][j])]
  OBVIOUS
<1>7. \A x \in {"init", "evict"} : th' = [th EXCEPT ![a] = [@ EXCEPT !.fr = c, !.pc = x]] =>
        Others(a) /\ th'[a].pc = x
  BY <1>1 DEF Others, Thread
<1>8. th' = [th EXCEPT ![a].i = @ + 1] =>
        Others(a) /\ th'[a].pc = "scan" /\ th'[a].i = th[a].i + 1
  BY <1>1 DEF Others, Thread
<1> HIDE DEF c, f, t, j
<1>9. \/ th'[a].pc = "init" /\ pt' = pt /\ Others(a)
      \/ /\ f.status \in {"PDIR", "PTAB"} /\ pt' = pt /\ Others(a)
         /\ th'[a].pc = "scan" /\ th'[a].i = th[a].i + 1
      \/ /\ f.status = "PAGE" /\ pt' = [pt EXCEPT ![t][j] = Aged(pt[t][j])] /\ Others(a)
         /\ \/ th'[a].pc = "evict"
            \/ th'[a].pc = "scan" /\ th'[a].i = th[a].i + 1 /\ UM(pt[t][j]) # "UM00"
  BY <1>4, <1>6, <1>7, <1>8
<1> QED BY <1>1, <1>4, <1>5, <1>9, Zenon DEF c, f, t, j

\* Each iteration brings the clock nearer to every frame it could take: by one place, and
\* a page that it passes has one bit less.
LEMMA ScanSafe ==
  ASSUME EnoughFrames, IInv, OwnInv, TableInv, SafeInv, NEW a \in Actors, Scan(a)
  PROVE  SafeInv'
<1> DEFINE c == nextframe.gca
           q == ft.ipt[c].pid
           v == ft.ipt[c].vpn
           t == pd[q][vaddr2pdi(v)].pd_base
           j == vaddr2pti(v)
           aged == [pt EXCEPT ![t][j] = Aged(pt[t][j])]
<1>1. /\ At(a, "scan") /\ Others(a) /\ fatal' = fatal /\ c \in Frames /\ th[a].i \in Nat
      /\ nextframe'.gca = NextFrame(c) /\ UNCHANGED <<ft, pd, proc, bstab>>
      /\ \/ th'[a].pc = "init" /\ pt' = pt
         \/ /\ ft.ipt[c].status \in {"PDIR", "PTAB"} /\ pt' = pt
            /\ th'[a].pc = "scan" /\ th'[a].i = th[a].i + 1
         \/ /\ ft.ipt[c].status = "PAGE" /\ pt' = aged
            /\ \/ th'[a].pc = "evict"
               \/ th'[a].pc = "scan" /\ th'[a].i = th[a].i + 1 /\ UM(pt[t][j]) # "UM00"
  BY ScanCases
<1>2. MayRun(a) /\ th[a].pc = "scan" /\ pt \in [Frames -> [Slots -> PTE]]
  BY <1>1 DEF At, IInv, TypeOK
<1>3. ft.ipt[c].status = "PAGE" => /\ t \in Frames /\ j \in Slots /\ pt[t][j] \in PTE /\ BitsOK(pt[t][j])
                                   /\ FrameEntry(c) = pt[t][j] /\ FrameEntry(c).pt_base = c
  <2>1. ft.ipt[c].status = "PAGE" => /\ t \in Frames /\ j \in Slots
                                     /\ FrameEntry(c) = pt[t][j] /\ FrameEntry(c).pt_base = c
    BY <1>1, <1>2, ResidentEntry
  <2> QED BY <1>2, <2>1 DEF SafeInv, Calmed, DirtyUsed
<1>4. NoFatal' /\ Backed' /\ BootTables' /\ OneDirectory'
  <2>1. NoFatal' /\ BootTables' /\ OneDirectory'
    BY <1>1 DEF SafeInv, Calmed, NoFatal, BootTables, OneDirectory, DirectoryOf
  <2> QED BY <1>1, <2>1, BackedKept DEF SafeInv, Calmed
<1>5. DirtyUsed'
  <2>1. CASE pt' = pt
    BY <2>1, DirtySame DEF SafeInv, Calmed
  <2>2. CASE ft.ipt[c].status = "PAGE" /\ pt' = aged
    <3>1. BitsOK(Aged(pt[t][j]))
      BY <1>3, <2>2, BitsUpdates
    <3> HIDE DEF t, j
    <3> QED BY <2>2, <3>1, DirtyOne DEF SafeInv, Calmed
  <2> QED BY <1>1, <2>1, <2>2
<1>6. ClockTurns'
  <2> SUFFICES ASSUME NEW b \in Actors, th'[b].pc = "scan", NEW f \in Frames, Usable(f)'
               PROVE  Turns(th[b], f)'
    BY DEF ClockTurns
  <2>1. b = a
    BY <1>1, <1>2, AloneFacts DEF OwnInv, Others
  <2>2. th'[a].i = th[a].i + 1 /\ ft.ipt[c].status # "NOT_USED"
        /\ (pt' = pt \/ (ft.ipt[c].status = "PAGE" /\ pt' = aged /\ UM(pt[t][j]) # "UM00"))
        /\ (ft.ipt[c].status = "PAGE" => pt' = aged /\ UM(pt[t][j]) # "UM00")
    BY <1>1, <2>1
  <2>3. Usable(f) /\ Turns(th[a], f)
    BY <1>1, <1>2 DEF Usable, SafeInv, ClockTurns
  <2>4. PICK r \in 0 .. 2, n \in Nat, d \in 0 .. NFRAMES - 1, i \in Nat :
          r = Rounds(f) /\ n = NFRAMES /\ d = Distance(c, f) /\ i = th[a].i
    BY <1>1, <1>2, <2>3, RoundsBound, Distances, SizesAssumption
  <2>5. i + r * n + d <= 3 * n - 1
    BY <2>3, <2>4 DEF Turns
  <2>6. CASE f # c
    <3>1. Distance(NextFrame(c), f) = d - 1
      BY <1>1, <2>4, <2>6, Distances
    <3>2. ft.ipt[f].status = "PAGE" => FrameEntry(f)' = FrameEntry(f)
      <4> SUFFICES ASSUME ft.ipt[f].status = "PAGE" PROVE FrameEntry(f)' = FrameEntry(f)
        OBVIOUS
      <4> DEFINE x == pd[ft.ipt[f].pid][vaddr2pdi(ft.ipt[f].vpn)].pd_base
                 y == vaddr2pti(ft.ipt[f].vpn)
      <4>1. x \in Frames /\ y \in Slots /\ FrameEntry(f) = pt[x][y] /\ FrameEntry(f).pt_base = f
        BY <1>2, ResidentEntry
      <4>2. FrameEntry(f)' = pt'[x][y]
        BY <1>1 DEF FrameEntry, EntryOf
      <4> HIDE DEF x, y
      <4>3. CASE pt' = pt
        BY <4>1, <4>2, <4>3
      <4>4. CASE ft.ipt[c].status = "PAGE" /\ pt' = aged
        <5>1. ~(x = t /\ y = j)
          BY <1>3, <2>6, <4>1, <4>4
        <5> HIDE DEF t, j
        <5> QED BY <1>2, <4>1, <4>2, <4>4, <5>1
      <4> QED BY <2>2, <4>3, <4>4
    <3>3. Rounds(f)' = r
      BY <1>1, <2>3, <2>4, <3>2 DEF Rounds, Usable
    <3>4. PICK z \in Int : z = r * n
      BY <2>4
    <3>5. d \in Int
      BY <2>4, SizesAssumption
    <3>6. (i + 1) + z + (d - 1) <= 3 * n - 1
      BY ONLY <2>4, <2>5, <3>4, <3>5
    <3> QED BY <1>1, <2>1, <2>2, <2>4, <3>1, <3>3, <3>4, <3>6 DEF Turns
  <2>7. CASE f = c
    <3>1. Distance(NextFrame(c), f) = n - 1 /\ d = 0
      BY <1>1, <2>4, <2>7, Distances
    <3>2. ft.ipt[c].status = "PAGE"
      BY <2>2, <2>3, <2>7 DEF Usable
    <3>3. FrameEntry(f)' = Aged(pt[t][j])
      <4>1. FrameEntry(f)' = pt'[t][j]
        BY <1>1, <2>7 DEF FrameEntry, EntryOf
      <4> HIDE DEF t, j
      <4> QED BY <1>2, <1>3, <2>2, <3>2, <4>1
    <3>4. PICK e \in PTE : e = pt[t][j] /\ UM(e) # "UM00" /\ BitsOK(e)
      BY <1>3, <2>2, <3>2
    <3>5. Aged(e).pt_acc + Aged(e).pt_dirty = e.pt_acc + e.pt_dirty - 1
      <4>1. e.pt_acc \in {0, 1} /\ e.pt_dirty \in {0, 1} /\ (e.pt_dirty = 1 => e.pt_acc = 1)
        BY <3>4 DEF PTE, BitsOK
      <4>2. ~(e.pt_acc = 0 /\ e.pt_dirty = 0)
        <5>1. e.pt_acc = 0 /\ e.pt_dirty = 0 => UM(e) = "UM00"
          BY DEF UM
        <5> QED BY <3>4, <5>1
      <4>3. CASE e.pt_acc = 1 /\ e.pt_dirty = 1
        <5>1. UM(e) = "UM11"
          BY <4>3 DEF UM
        <5>2. Aged(e) = [e EXCEPT !.pt_dirty = 0, !.pt_avail = 1]
          BY <5>1 DEF Aged
        <5>3. Aged(e).pt_dirty = 0 /\ Aged(e).pt_acc = e.pt_acc
          BY <3>4, <5>2 DEF PTE
        <5> QED BY <4>3, <5>3
      <4>4. CASE e.pt_acc = 1 /\ e.pt_dirty = 0
        <5>1. UM(e) = "UM10"
          BY <4>4 DEF UM
        <5>2. Aged(e) = [e EXCEPT !.pt_acc = 0]
          BY <5>1 DEF Aged
        <5>3. Aged(e).pt_acc = 0 /\ Aged(e).pt_dirty = e.pt_dirty
          BY <3>4, <5>2 DEF PTE
        <5> QED BY <4>4, <5>3
      <4> QED BY <4>1, <4>2, <4>3, <4>4
    <3>6. r = e.pt_acc + e.pt_dirty
      BY <1>3, <2>4, <2>7, <3>2, <3>4 DEF Rounds
    <3>7. Rounds(f)' = Aged(e).pt_acc + Aged(e).pt_dirty
      <4>1. ft'.ipt[f].status # "NOT_USED" /\ FrameEntry(f)' = Aged(e)
        BY <1>1, <2>7, <3>2, <3>3, <3>4
      <4> QED BY <4>1 DEF Rounds
    <3>8. Rounds(f)' = r - 1
      <4>1. e.pt_acc \in {0, 1} /\ e.pt_dirty \in {0, 1}
        BY <3>4 DEF PTE
      <4> QED BY ONLY <3>5, <3>6, <3>7, <4>1
    <3>9. (i + 1) + (r - 1) * n + (n - 1) <= 3 * n - 1
      <4>1. r \in {0, 1, 2}
        BY <2>4
      <4>2. i + r * n <= 3 * n - 1
        BY <2>4, <2>5, <3>1
      <4> QED BY ONLY <2>4, <4>1, <4>2
    <3> QED BY <1>1, <2>1, <2>2, <2>4, <3>1, <3>8, <3>9 DEF Turns
  <2> QED BY <2>6, <2>7
<1> QED BY <1>4, <1>5, <1>6 DEF SafeInv, Calmed

\* getNewFrameFIFO always finds a frame: when none is unused some page is resident, so the
\* queue has a tail, and the tail has the neighbour that pickFrameFIFO expects.
LEMMA QueueServes ==
  ASSUME EnoughFrames, IInv, TableInv, QueueInv, SafeInv, NEW a \in Actors
  PROVE  ~NoFrameAvailable(a)
<1> SUFFICES ASSUME NoFrameAvailable(a) PROVE FALSE
  OBVIOUS
<1>1. /\ MayRun(a) /\ th[a].pc = "alloc" /\ currpolicy = "FIFO" /\ NoFrames
      /\ ft.flistTail = EMPTY \/ ~Unlinkable(ft, ft.flistTail)
  BY DEF NoFrameAvailable, At
<1>2. PICK f \in Frames : IsPage(f)
  <2>1. PICK f \in Frames : Usable(f)
    BY FrameLeft DEF TableInv, SafeInv, Calmed
  <2> QED BY <1>1, <2>1 DEF NoFrames, Free, Usable, IsPage
<1>3. PICK s \in Seq(Frames) : QueueIs(s)
  BY DEF QueueInv
<1>4. Victims = {}
  <2>1. ~Queued(a) /\ th[a].pc \in FaultPath /\ ~Busy(a)
    BY <1>1 DEF MayRun, FaultPath, Busy
  <2> QED BY <2>1, VictimOf
<1>5. In(f, s) /\ Chain(ft, s) /\ ft \in FT
  BY <1>1, <1>2, <1>3, <1>4, FTType DEF QueueIs, IInv
<1>6. Len(s) > 0 /\ Len(s) \in Nat
  <2>1. Len(s) \in Nat
    BY <1>5, ChainElements
  <2>2. PICK i \in 1 .. Len(s) : s[i] = f
    BY <1>5 DEF In
  <2> QED BY <2>1, <2>2
<1>7. Len(s) \in 1 .. Len(s)
  BY <1>6
<1>8. ft.flistTail = s[Len(s)] /\ s[Len(s)] \in Frames /\ s[Len(s)] # EMPTY /\ In(s[Len(s)], s)
  BY <1>5, <1>6, <1>7, ChainElements
<1>9. ft.ipt[s[Len(s)]].status = "PAGE"
  BY <1>1, <1>3, <1>8 DEF QueueIs, IsPage
<1> QED BY <1>1, <1>5, <1>7, <1>8, <1>9, ChainRemove

\* The steps of getNewFrameFIFO, and the end of write_bs.
LEMMA FifoSafe ==
  ASSUME EnoughFrames, IInv, OwnInv, TableInv, QueueInv, SafeInv, NEW a \in Actors,
         TakeFree(a) \/ PickVictim(a) \/ NoFrameAvailable(a) \/ WriteBs(a)
  PROVE  SafeInv'
<1>1. DirtyUsed /\ pt \in [Frames -> [Slots -> PTE]]
  BY DEF SafeInv, Calmed, IInv, TypeOK
<1>2. CASE TakeFree(a)
  <2>1. /\ At(a, "alloc") /\ th'[a].pc = "init" /\ Others(a) /\ UNCHANGED <<ft, pt, bstab, proc>>
    BY <1>2, TakeFreeEffect
  <2>2. MayRun(a) /\ th[a].pc # "scan" /\ fatal' = fatal
    BY <1>2, <2>1 DEF TakeFree, At
  <2>3. DirtyUsed' /\ RolesKept
    BY <1>1, <2>1, DirtySame DEF RolesKept
  <2> QED BY <2>1, <2>2, <2>3, QuietSafe
<1>3. CASE PickVictim(a)
  <2>1. /\ At(a, "alloc") /\ th'[a].pc = "evict" /\ Others(a) /\ UNCHANGED <<pt, bstab, proc>>
        /\ \A f \in Frames : SameEntry(ft, ft', f)
    BY <1>3, PickVictimEffect
  <2>2. MayRun(a) /\ th[a].pc # "scan" /\ fatal' = fatal
    BY <1>3, <2>1 DEF PickVictim, At
  <2>3. DirtyUsed' /\ RolesKept
    BY <1>1, <2>1, DirtySame, SameRoles
  <2> QED BY <2>1, <2>2, <2>3, QuietSafe
<1>4. CASE NoFrameAvailable(a)
  BY <1>4, QueueServes
<1>5. CASE WriteBs(a)
  <2> DEFINE t == th[a].ept
             j == th[a].epti
  <2>1. /\ At(a, "write_bs") /\ th'[a].pc = "init" /\ Others(a) /\ UNCHANGED <<ft, bstab, proc>>
        /\ pt' = [pt EXCEPT ![t][j] = [pt[t][j] EXCEPT !.pt_dirty = 0, !.pt_avail = 0]]
    BY <1>5, WriteBsEffect
  <2>2. MayRun(a) /\ th[a].pc # "scan" /\ fatal' = fatal
    BY <1>5, <2>1 DEF WriteBs, At
  <2>3. t \in Frames /\ j \in Slots => BitsOK([pt[t][j] EXCEPT !.pt_dirty = 0, !.pt_avail = 0])
    <3> HIDE DEF t, j
    <3> QED BY <1>1, BitsUpdates DEF DirtyUsed
  <2>4. DirtyUsed' /\ RolesKept
    <3>1. RolesKept
      BY <2>1 DEF RolesKept
    <3> HIDE DEF t, j
    <3> QED BY <1>1, <2>1, <2>3, <3>1, DirtyOne
  <2> QED BY <2>1, <2>2, <2>4, QuietSafe
<1> QED BY <1>2, <1>3, <1>4, <1>5

\* evictFrame finds its victim mapped, and the store of the victim has the page.
LEMMA EvictSafe ==
  ASSUME IInv, OwnInv, TableInv, QueueInv, SafeInv, NEW a \in Actors, Evict(a)
  PROVE  SafeInv'
<1> DEFINE fr == th[a].fr
           q == ft.ipt[fr].pid
           v == ft.ipt[fr].vpn
           t == pd[q][vaddr2pdi(v)].pd_base
           j == vaddr2pti(v)
<1>1. /\ At(a, "evict") /\ MayRun(a) /\ th[a].pc = "evict" /\ fr \in Frames /\ ft.ipt[fr].status = "PAGE"
  <2>1. At(a, "evict") /\ MayRun(a) /\ th[a].pc = "evict"
    BY DEF Evict, At
  <2> QED BY <2>1 DEF IInv, LocalsOK, QueueInv, HandOK, FrameToUse
<1>2. /\ q \in Procs /\ Live(q) /\ v \in Pages /\ v < proc[q].hsize
      /\ t \in Frames /\ ft.ipt[t].status = "PTAB" /\ j \in Slots
  BY <1>1, VictimMapped
<1>3. BsValid(BsOf(q, v), BsOff(v))
  <2> HIDE DEF q, v
  <2>1. proc[q].hsize \in Nat /\ v \in Nat
    <3>1. \A p \in Procs : proc[p].hsize \in 0 .. MAXHEAP
      BY DEF IInv, TypeOK
    <3> QED BY <1>2, <3>1, SizesAssumption DEF Pages
  <2>2. v \in 0 .. proc[q].hsize - 1
    BY <1>2, <2>1
  <2> QED BY <1>2, <2>2 DEF SafeInv, Calmed, Backed
<1>4. fatal' = fatal
  BY <1>1, <1>2, <1>3, Zenon DEF Evict, VictimStore
<1>5. CASE Still
  BY <1>1, <1>4, <1>5, StillSafe
<1>6. CASE ~Still
  <2>1. /\ Others(a) /\ UNCHANGED <<bstab, proc>> /\ th'[a].pc \in {"init", "write_bs"}
        /\ pt' = [pt EXCEPT ![t][j] = MarkAbsent(pt[t][j])]
        /\ ft' = decRefCount(ft, currpolicy, t)
    BY <1>6, EvictEffect
  <2>2. RolesKept
    <3>1. ft \in FT
      BY FTType DEF IInv
    <3> HIDE DEF t
    <3>2. \A g \in Frames : g # t => SameEntry(ft, ft', g)
      BY <1>2, <2>1, <3>1, DecRefCountSame
    <3>3. \/ ft'.ipt[t] = Cleared
          \/ ft'.ipt[t].status = ft.ipt[t].status /\ ft'.ipt[t].pid = ft.ipt[t].pid
      BY <1>2, <2>1, <3>1, DecRefCountSame
    <3>4. ft'.ipt[t] = Cleared => ft'.ipt[t].status = "NOT_USED"
      BY DEF Cleared
    <3> QED BY <3>2, <3>3, <3>4 DEF RolesKept, SameEntry
  <2>3. DirtyUsed'
    <3>1. pt \in [Frames -> [Slots -> PTE]] /\ DirtyUsed
      BY DEF IInv, TypeOK, SafeInv, Calmed
    <3> HIDE DEF t, j
    <3>2. BitsOK(MarkAbsent(pt[t][j]))
      BY <1>2, <3>1, BitsUpdates DEF DirtyUsed
    <3> QED BY <2>1, <3>1, <3>2, DirtyOne
  <2> QED BY <1>1, <1>4, <2>1, <2>2, <2>3, QuietSafe
<1> QED BY <1>5, <1>6

-----------------------------------------------------------------------------
(* The frames that pf_handler and init_pd put to use. *)

\* A new frame is blank, and is no second directory.
LEMMA FillSafe ==
  ASSUME IInv, OwnInv, SafeInv, NEW a \in Actors, At(a, "init"), InitFrame(a), Others(a),
         th'[a].pc # "scan", UNCHANGED <<proc, bstab>>, fatal' = fatal,
         pt' = [pt EXCEPT ![th[a].fr] = [j \in Slots |-> NoPTE]],
         \/ a \in Procs /\ th[a].type \in {"PTAB", "PAGE"}
         \/ th[a].type = "PDIR" /\ \A f \in Frames : ft.ipt[f].pid # Owner(a)
  PROVE  SafeInv'
<1>1. MayRun(a) /\ th[a].pc = "init"
  BY DEF At
<1>2. PICK fr \in Frames :
      /\ fr = th[a].fr /\ ft'.ipt[fr].status = th[a].type /\ ft'.ipt[fr].pid = Owner(a)
      /\ \A f \in Frames : f # fr => SameEntry(ft, ft', f)
  BY InitFrameEffect
<1>3. DirtyUsed'
  BY DirtyBlank DEF SafeInv, Calmed
<1>4. CASE a \in Procs /\ th[a].type \in {"PTAB", "PAGE"}
  <2>1. Owner(a) \in Procs
    BY <1>4, Kinds DEF Owner
  <2>2. RolesKept
    BY <1>2, <1>4, <2>1 DEF RolesKept, SameEntry
  <2> QED BY <1>1, <1>3, <2>2, QuietSafe
<1>5. CASE th[a].type = "PDIR" /\ \A f \in Frames : ft.ipt[f].pid # Owner(a)
  <2>1. NoFatal' /\ Backed' /\ ClockTurns'
    <3>1. NobodyScans'
      BY <1>1, NotScanning DEF Others
    <3> QED BY <3>1, BackedKept DEF SafeInv, Calmed, NoFatal, NobodyScans, ClockTurns
  <2>2. Owner(a) \in Procs
    <3>1. a \in Creators
      BY <1>1, <1>5, Kinds DEF OwnInv, Roles, RoleOK, Handling
    <3> QED BY <1>1, <3>1 DEF IInv, LocalsOK, Owner
  <2>3. \A f \in Frames : f # fr => /\ ft'.ipt[f].status = ft.ipt[f].status
                                    /\ ft'.ipt[f].pid = ft.ipt[f].pid
    BY <1>2 DEF SameEntry
  <2>4. BootTables'
    <3> SUFFICES ASSUME NEW f \in Frames, ft'.ipt[f].status \in {"PTAB", "PDIR"}
                 PROVE  f <= NUM_GLOBAL \/ ft'.ipt[f].pid \in Procs
      BY Zenon DEF BootTables
    <3>1. CASE f = fr
      BY <1>2, <2>2, <3>1
    <3>2. CASE f # fr
      <4>1. ft.ipt[f].status \in {"PTAB", "PDIR"} => f <= NUM_GLOBAL \/ ft.ipt[f].pid \in Procs
        BY Zenon DEF SafeInv, Calmed, BootTables
      <4>2. ft'.ipt[f].status = ft.ipt[f].status /\ ft'.ipt[f].pid = ft.ipt[f].pid
        BY <2>3, <3>2
      <4> QED BY ONLY <4>1, <4>2, ft'.ipt[f].status \in {"PTAB", "PDIR"}
    <3> QED BY <3>1, <3>2
  <2>5. OneDirectory'
    <3>1. \A f \in Frames : f # fr => ft'.ipt[f].pid # Owner(a)
      BY <1>5, <2>3
    <3>2. \A f \in Frames, p \in Procs : f # fr /\ DirectoryOf(f, p)' => DirectoryOf(f, p) /\ p # Owner(a)
      BY <2>3, <3>1 DEF DirectoryOf
    <3>3. \A p \in Procs : DirectoryOf(fr, p)' => p = Owner(a)
      BY <1>2 DEF DirectoryOf
    <3>4. OneDirectory
      BY DEF SafeInv, Calmed
    <3> SUFFICES ASSUME NEW f \in Frames, NEW g \in Frames, NEW p \in Procs,
                        DirectoryOf(f, p)', DirectoryOf(g, p)'
                 PROVE  f = g
      BY Zenon DEF OneDirectory
    <3>5. CASE f = fr \/ g = fr
      BY <3>2, <3>3, <3>5
    <3>6. CASE f # fr /\ g # fr
      BY <3>2, <3>4, <3>6, Zenon DEF OneDirectory
    <3> QED BY <3>5, <3>6
  <2> QED BY <1>3, <2>1, <2>4, <2>5 DEF SafeInv, Calmed
<1> QED BY <1>4, <1>5

\* pf_handler: the store of a heap page has it, so its page can be read.
LEMMA HandlerSafe ==
  ASSUME IInv, IInv', OwnInv, TableInv, SafeInv, NEW p \in Procs,
         NewPageTable(p) \/ LoadPage(p) \/ ReadBs(p)
  PROVE  SafeInv'
<1>1. p \in Actors
  BY Kinds
<1>2. CASE NewPageTable(p)
  <2>1. /\ At(p, "init") /\ th[p].type = "PTAB" /\ InitFrame(p) /\ Others(p) /\ th'[p].pc = "alloc"
        /\ pt' = [pt EXCEPT ![th[p].fr] = [j \in Slots |-> NoPTE]] /\ UNCHANGED <<proc, bstab>>
    BY <1>2, NewPageTableEffect
  <2>2. fatal' = fatal
    BY <1>2 DEF NewPageTable
  <2> QED BY <1>1, <2>1, <2>2, FillSafe
<1>3. CASE LoadPage(p)
  <2> DEFINE v == th[p].v
  <2>1. At(p, "init") /\ MayRun(p) /\ th[p].pc = "init"
    BY <1>3 DEF LoadPage, At
  <2>2. Live(p)
    <3>1. proc[p].prstate \in {"free", "live"}
      BY DEF IInv, TypeOK
    <3> QED BY <2>1, <3>1 DEF IInv, LocalsOK, SlotFree, Live
  <2>3. v \in 0 .. proc[p].hsize - 1
    <3>1. proc[p].hsize \in 0 .. MAXHEAP /\ th[p] \in Thread
      BY <1>1 DEF IInv, TypeOK
    <3>2. v \in 0 .. MAXHEAP
      BY <3>1 DEF Thread, Pages
    <3>3. v < proc[p].hsize
      BY <2>1 DEF TableInv, HandlerOK, InHand, Handling
    <3> HIDE DEF v
    <3> QED BY <3>1, <3>2, <3>3, SizesAssumption
  <2>4. BsValid(BsOf(p, v), BsOff(v))
    <3> HIDE DEF v
    <3> QED BY <2>2, <2>3 DEF SafeInv, Calmed, Backed
  <2>5. fatal' = fatal
    BY <1>3, <2>4, Zenon DEF LoadPage
  <2>6. CASE Still
    BY <1>1, <2>1, <2>5, <2>6, StillSafe
  <2>7. CASE ~Still
    <3>1. /\ th[p].type = "PAGE" /\ InitFrame(p) /\ Others(p) /\ th'[p].pc = "read_bs"
          /\ pt' = [pt EXCEPT ![th[p].fr] = [j \in Slots |-> NoPTE]] /\ UNCHANGED <<proc, bstab>>
      BY <1>3, <2>7, LoadPageEffect
    <3> QED BY <1>1, <2>1, <2>5, <3>1, FillSafe
  <2> QED BY <2>6, <2>7
<1>4. CASE ReadBs(p)
  <2> DEFINE t == th[p].pt
             j == vaddr2pti(th[p].v)
             x == [pt[t][j] EXCEPT !.pt_pres = 1, !.pt_base = th[p].fr]
  <2>1. /\ At(p, "read_bs") /\ Others(p) /\ th'[p].pc = "access" /\ UNCHANGED <<proc, bstab>>
        /\ ft' = incRefCount(ft, t) /\ pt' = [pt EXCEPT ![t][j] = x]
    BY <1>4, ReadBsEffect
  <2>2. MayRun(p) /\ th[p].pc = "read_bs" /\ fatal' = fatal
    BY <1>4, <2>1 DEF At, ReadBs
  <2>3. t \in Frames /\ j \in Slots
    BY <1>4, ReadBsView
  <2>4. RolesKept
    <3>1. ft \in FT
      BY FTType DEF IInv
    <3> HIDE DEF t
    <3>2. /\ \A g \in Frames : g # t => ft'.ipt[g] = ft.ipt[g]
          /\ ft'.ipt[t].status = ft.ipt[t].status /\ ft'.ipt[t].pid = ft.ipt[t].pid
      BY <2>1, <2>3, <3>1, IncRefCountSame
    <3> QED BY <3>2 DEF RolesKept
  <2>5. DirtyUsed'
    <3>1. pt \in [Frames -> [Slots -> PTE]] /\ DirtyUsed
      BY DEF IInv, TypeOK, SafeInv, Calmed
    <3>2. PICK e \in PTE : e = pt[t][j] /\ BitsOK(e)
      <4> HIDE DEF t, j
      <4> QED BY <2>3, <3>1 DEF DirtyUsed
    <3>3. BitsOK(x)
      BY <3>2, BitsUpdates
    <3> HIDE DEF t, j, x
    <3> QED BY <2>1, <3>1, <3>3, DirtyOne
  <2> QED BY <1>1, <2>1, <2>2, <2>4, <2>5, QuietSafe
<1> QED BY <1>2, <1>3, <1>4

\* init_pd: the slot is free, so its process has no directory yet.
LEMMA DirectorySafe ==
  ASSUME OneCreator, IInv, OwnInv, Counted, SafeInv, NEW a \in Creators, NewPageDirectory(a)
  PROVE  SafeInv'
<1>1. /\ At(a, "init") /\ th[a].type = "PDIR" /\ InitFrame(a) /\ Others(a) /\ th'[a].pc = "init_pd"
      /\ pt' = [pt EXCEPT ![th[a].fr] = [j \in Slots |-> NoPTE]] /\ UNCHANGED <<proc, bstab>>
  BY NewPageDirectoryEffect
<1>2. fatal' = fatal /\ a \in Actors
  BY Kinds DEF NewPageDirectory
<1>3. \A f \in Frames : ft.ipt[f].pid # Owner(a)
  <2>1. th[a].pc = "init" /\ Owner(a) = th[a].pid
    BY <1>1 DEF At, Owner
  <2>2. Owner(a) \in Procs /\ ~Live(Owner(a))
    <3>1. th[a].pid \in Procs
      BY <1>2, <2>1 DEF IInv, LocalsOK
    <3>2. SlotFree(th[a].pid)
      BY <2>1 DEF Counted, Reserved, Creation
    <3> QED BY <2>1, <3>1, <3>2 DEF SlotFree, Live
  <2>3. \A b \in Creators : th[b].pc # "init_pd"
    BY <2>1 DEF OneCreator
  <2> QED BY <2>2, <2>3 DEF OwnInv, FramesOwned
<1> QED BY <1>1, <1>2, <1>3, FillSafe

\* freeProcFrames: a page of the victim of kill is in the list, because no call works for
\* that process.
LEMMA KillFrameSafe ==
  ASSUME IInv, OwnInv, QueueInv, SafeInv, NEW a \in Actors, KillFrame(a)
  PROVE  SafeInv'
<1>1. At(a, "kill") /\ MayRun(a) /\ th[a].pc = "kill" /\ th[a].pid \in Procs
  BY DEF KillFrame, At, IInv, LocalsOK
<1>2. PICK f \in Frames : f = th[a].i
  <2>1. th[a].i \in 0 .. 3 * NFRAMES + 1 /\ th[a].i < NFRAMES
    BY DEF IInv, TypeOK, Thread, KillFrame, FramesToFree
  <2>2. th[a].i \in Frames
    BY <2>1, SizesAssumption DEF Frames
  <2> QED BY <2>2
<1>3. ft.ipt[f].pid = th[a].pid /\ Unlinks(ft, currpolicy, f) => Unlinkable(ft, f)
  <2> SUFFICES ASSUME ft.ipt[f].pid = th[a].pid, Unlinks(ft, currpolicy, f) PROVE Unlinkable(ft, f)
    OBVIOUS
  <2>1. currpolicy = "FIFO" /\ IsPage(f)
    BY DEF Unlinks, IsPage
  <2>2. PICK s \in Seq(Frames) : QueueIs(s)
    BY DEF QueueInv
  <2>3. f \notin Victims
    <3> SUFFICES ASSUME NEW b \in Actors, Busy(b), th[b].fr = f PROVE FALSE
      BY DEF Victims, Busy
    <3>1. th[b].pc = "write_bs"
      <4>1. b # a
        BY <1>1 DEF Busy
      <4> QED BY <1>1, <4>1, AloneFacts DEF OwnInv, Busy
    <3>2. ~BeingEvicted(th[a].pid)
      BY <1>1 DEF OwnInv, KillAlone
    <3> QED BY <3>1, <3>2 DEF BeingEvicted
  <2>4. PICK k \in 1 .. Len(s) : s[k] = f
    BY <2>1, <2>2, <2>3 DEF QueueIs, In
  <2>5. ft \in FT /\ Chain(ft, s) /\ ft.ipt[s[k]].status = "PAGE"
    BY <2>1, <2>2, <2>4, FTType DEF QueueIs, IInv, IsPage
  <2> QED BY <2>4, <2>5, ChainRemove
<1>4. fatal' = fatal
  BY <1>2, <1>3, Zenon DEF KillFrame
<1>5. CASE Still
  BY <1>1, <1>4, <1>5, StillSafe
<1>6. CASE ~Still
  <2>1. /\ th'[a].pc = "kill" /\ Others(a) /\ UNCHANGED <<pt, proc, bstab>>
        /\ ft.ipt[f].pid = th[a].pid => ft'.ipt[f] = Cleared
        /\ ft.ipt[f].pid # th[a].pid => SameEntry(ft, ft', f)
        /\ \A g \in Frames : g # f => SameEntry(ft, ft', g)
    BY <1>2, <1>6, KillFrameEffect
  <2>2. RolesKept
    BY <2>1 DEF RolesKept, SameEntry, Cleared
  <2>3. DirtyUsed'
    BY <2>1, DirtySame DEF SafeInv, Calmed
  <2> QED BY <1>1, <1>4, <2>1, <2>2, <2>3, QuietSafe
<1> QED BY <1>5, <1>6

-----------------------------------------------------------------------------
(* The stores behind a heap. *)

\* A page of a heap is in the store that holds it, and within what the store holds of it.
LEMMA HeapPage ==
  ASSUME NEW h \in 0 .. MAXHEAP, NEW v \in 0 .. h - 1
  PROVE  LET k == v \div MAX_PAGES_PER_BS
         IN  /\ k \in 0 .. bsReq(h) - 1 /\ k \in Stores
             /\ BsOff(v) \in Nat /\ BsOff(v) < Lesser(h - k * MAX_PAGES_PER_BS, MAX_PAGES_PER_BS)
<1>1. PICK b \in Nat \ {0}, x \in Nat, y \in Nat : b = MAX_PAGES_PER_BS /\ x = v /\ y = h /\ x < y
  BY SizesAssumption
<1>2. PICK k \in Int, o \in Int, l \in Int : k = x \div b /\ o = x % b /\ l = (y - 1) \div b
  BY ONLY <1>1
<1>3. x = b * k + o /\ o \in 0 .. b - 1
  <2>1. x = b * (x \div b) + (x % b)
    BY <1>1, DivMod
  <2>2. x % b \in 0 .. b - 1
    BY ONLY <1>1
  <2> QED BY <1>2, <2>1, <2>2
<1>4. k \in Nat /\ k <= l
  <2>1. x \in Nat /\ y - 1 \in Nat /\ x <= y - 1
    BY ONLY <1>1
  <2>2. x \div b <= (y - 1) \div b /\ x \div b \in Nat
    BY ONLY <1>1, <2>1
  <2> QED BY <1>2, <2>2
<1>5. bsReq(h) = 1 + l
  BY <1>1, <1>2 DEF bsReq
<1>6. k \in 0 .. bsReq(h) - 1
  BY <1>4, <1>5
<1>7. k \in Stores
  <2>1. bsReq(h) \in 0 .. MAX_BS_ENTRIES
    BY BsReqBound
  <2> QED BY <1>6, <2>1, SizesAssumption DEF Stores
<1>8. o < y - k * b /\ o < b
  <2>1. PICK z \in Int : z = b * k /\ z = k * b
    BY <1>1, <1>2
  <2>2. x = z + o
    BY <1>3, <2>1
  <2>3. o < y - z /\ o < b
    BY ONLY <1>1, <1>3, <2>1, <2>2
  <2> QED BY <2>1, <2>3
<1>9. o < Lesser(y - k * b, b)
  BY <1>8 DEF Lesser
<1> QED BY <1>1, <1>2, <1>3, <1>6, <1>7, <1>9 DEF BsOff

\* vcreate: the slot that newpid found is still free, and the count of free stores that it
\* checked still covers the heap.
LEMMA BornSafe ==
  ASSUME OneCreator, IInv, OwnInv, Counted, SafeInv, NEW a \in Creators, FinishVcreate(a)
  PROVE  SafeInv'
<1>1. /\ At(a, "init_pd") /\ MayRun(a) /\ th[a].pc = "init_pd" /\ a \in Actors
  BY Kinds DEF FinishVcreate, At
<1>2. SlotFree(th[a].pid) /\ bsReq(th[a].h) <= Cardinality(Unallocated)
  BY <1>1 DEF Counted, Reserved, Creation
<1>3. fatal' = fatal
  BY <1>2, Zenon DEF FinishVcreate
<1>4. CASE Still
  BY <1>1, <1>3, <1>4, StillSafe
<1>5. CASE ~Still
  <2>1. PICK p \in Procs, h \in 0 .. MAXHEAP :
          /\ p = th[a].pid /\ h = th[a].h /\ bstab' = bstabFor(h)
          /\ proc'[p] = [prstate |-> "live", hsize |-> h, pbsd |-> pbsdFor(h)]
          /\ \A q \in Procs : q # p => proc'[q] = proc[q]
          /\ th'[a] = Idle /\ th'[p] = Idle
          /\ \A b \in Actors : b # a /\ b # p => th'[b] = th[b]
          /\ UNCHANGED <<ft, pt>>
    <3>1. \/ Still
          \/ /\ th[a].pid \in Procs /\ th[a].h \in 0 .. MAXHEAP
             /\ bstab' = bstabFor(th[a].h)
             /\ proc'[th[a].pid] = [prstate |-> "live", hsize |-> th[a].h, pbsd |-> pbsdFor(th[a].h)]
             /\ \A q \in Procs : q # th[a].pid => proc'[q] = proc[q]
             /\ th'[a] = Idle /\ th'[th[a].pid] = Idle
             /\ \A b \in Actors : b # a /\ b # th[a].pid => th'[b] = th[b]
             /\ UNCHANGED <<ft, pt>>
      BY FinishVcreateEffect
    <3> QED BY <1>5, <3>1, Zenon
  <2>2. NobodyScans'
    <3>1. \A b \in Actors : th'[b] = th[b] \/ th'[b].pc # "scan"
      BY <2>1 DEF Idle
    <3> QED BY <1>1, <3>1, NotScanning
  <2>3. DirtyUsed' /\ RolesKept
    BY <2>1, DirtySame DEF SafeInv, Calmed, RolesKept
  <2>4. Backed'
    <3> SUFFICES ASSUME NEW q \in Procs, Live(q)', NEW v \in 0 .. proc'[q].hsize - 1
                 PROVE  BsValid(BsOf(q, v), BsOff(v))'
      BY DEF Backed
    <3>1. CASE q = p
      <4>1. proc'[q].hsize = h /\ proc'[q].pbsd = pbsdFor(h)
        BY <2>1, <3>1
      <4>2. PICK k : /\ k = v \div MAX_PAGES_PER_BS /\ k \in 0 .. bsReq(h) - 1 /\ k \in Stores
                     /\ BsOff(v) \in Nat
                     /\ BsOff(v) < Lesser(h - k * MAX_PAGES_PER_BS, MAX_PAGES_PER_BS)
        BY <4>1, HeapPage
      <4>3. PICK s : s = pbsdFor(h)[k]
        OBVIOUS
      <4>4. bsReq(h) \in Nat /\ k < bsReq(h) /\ k < Cardinality(Unallocated)
        <5>1. bsReq(h) \in Nat /\ Cardinality(Unallocated) \in Nat
          BY BsReqBound, UnallocatedFinite
        <5> QED BY <1>2, <2>1, <4>2, <5>1
      <4>5. s \in Stores /\ s \in Unallocated /\ Rank(s) = k
        BY <4>2, <4>3, <4>4, MapFacts
      <4>6. bstab'[s] = [isallocated |-> TRUE,
                         npages |-> Lesser(h - k * MAX_PAGES_PER_BS, MAX_PAGES_PER_BS)]
        BY <2>1, <4>4, <4>5 DEF bstabFor
      <4>7. BsOf(q, v)' = s
        BY <4>1, <4>2, <4>3 DEF BsOf
      <4> QED BY <4>2, <4>5, <4>6, <4>7 DEF BsValid
    <3>2. CASE q # p
      <4>1. proc'[q] = proc[q] /\ Live(q)
        BY <2>1, <3>2 DEF Live
      <4>2. PICK s : s = BsOf(q, v)
        OBVIOUS
      <4>3. BsValid(s, BsOff(v))
        BY <4>1, <4>2 DEF SafeInv, Calmed, Backed
      <4>4. bstab'[s] = bstab[s]
        BY <2>1, <4>3 DEF bstabFor, BsValid, Unallocated
      <4>5. BsOf(q, v)' = s
        BY <4>1, <4>2 DEF BsOf
      <4> QED BY <4>3, <4>4, <4>5 DEF BsValid
    <3> QED BY <3>1, <3>2
  <2> QED BY <1>3, <2>2, <2>3, <2>4, HarmlessSafe DEF Harmless
<1> QED BY <1>4, <1>5

\* kill: the stores it gives back are nobody else's.
LEMMA DeadSafe ==
  ASSUME IInv, OwnInv, SafeInv, NEW a \in Actors, FinishKill(a)
  PROVE  SafeInv'
<1>1. At(a, "kill") /\ MayRun(a) /\ th[a].pc = "kill" /\ fatal' = fatal
  BY DEF FinishKill, At
<1>2. PICK p \in Procs :
        /\ p = th[a].pid
        /\ bstab' = [s \in Stores |-> IF s \in StoresOf(p)
                                      THEN [isallocated |-> FALSE, npages |-> 0]
                                      ELSE bstab[s]]
        /\ \A q \in Procs : q # p => proc'[q] = proc[q]
        /\ th'[a] = Idle /\ th'[p] = Idle
        /\ \A b \in Actors : b # a /\ b # p => th'[b] = th[b]
        /\ UNCHANGED <<ft, pt>>
  BY FinishKillEffect
<1>3. NobodyScans'
  <2>1. \A b \in Actors : th'[b] = th[b] \/ th'[b].pc # "scan"
    BY <1>2 DEF Idle
  <2> QED BY <1>1, <2>1, NotScanning
<1>4. DirtyUsed' /\ RolesKept
  BY <1>2, DirtySame DEF SafeInv, Calmed, RolesKept
<1>5. Backed'
  <2> SUFFICES ASSUME NEW q \in Procs, Live(q)', NEW v \in 0 .. proc'[q].hsize - 1
               PROVE  BsValid(BsOf(q, v), BsOff(v))'
    BY DEF Backed
  <2>1. Live(q) /\ q # p /\ proc'[q] = proc[q]
    BY <1>2, DeadFacts
  <2>2. PICK s : s = BsOf(q, v)
    OBVIOUS
  <2>3. BsValid(s, BsOff(v))
    BY <2>1, <2>2 DEF SafeInv, Calmed, Backed
  <2>4. s \notin StoresOf(p)
    <3>1. PICK h \in 0 .. MAXHEAP : h = proc[q].hsize
      BY DEF IInv, TypeOK
    <3>2. PICK k : k = v \div MAX_PAGES_PER_BS /\ k \in 0 .. bsReq(h) - 1 /\ k \in Stores
      BY <2>1, <3>1, HeapPage
    <3>3. Has(q, k, s) /\ s \in Stores
      BY <2>1, <2>2, <2>3, <3>1, <3>2 DEF Has, StoreIdx, BsOf, BsValid
    <3>4. Live(p)
      BY <1>1, <1>2 DEF OwnInv, KillAlone
    <3>5. \A l \in Stores : ~Has(p, l, s)
      BY <2>1, <3>2, <3>3 DEF OwnInv, StoreMap
    <3> QED BY <3>4, <3>5, StoresOfHas
  <2>5. bstab'[s] = bstab[s] /\ BsOf(q, v)' = s
    BY <1>2, <2>1, <2>2, <2>3, <2>4 DEF BsValid, BsOf
  <2> QED BY <2>3, <2>5 DEF BsValid
<1> QED BY <1>1, <1>3, <1>4, <1>5, HarmlessSafe DEF Harmless

-----------------------------------------------------------------------------
(* The theorem. *)

\* Every step keeps the kernel in control.
LEMMA StepSafe ==
  ASSUME EnoughFrames, OneCreator, IInv, IInv', OwnInv, Counted, TableInv, QueueInv, SafeInv, [Next]_vars
  PROVE  SafeInv'
<1>1. ASSUME NEW p \in Procs, Access(p) \/ Retry(p) PROVE SafeInv'
  BY <1>1, UserSafe
<1>2. ASSUME NEW p \in Procs, FaultStep(p) PROVE SafeInv'
  <2>1. p \in Actors
    BY Kinds
  <2> QED BY <1>2, <2>1, CallSafe, HandlerSafe DEF FaultStep
<1>3. ASSUME NEW a \in Actors, FrameStep(a) PROVE SafeInv'
  BY <1>3, FifoSafe, StartScanSafe, ScanSafe, EvictSafe DEF FrameStep
<1>4. ASSUME NEW a \in Actors, KillStep(a) PROVE SafeInv'
  BY <1>4, KillFrameSafe, DeadSafe DEF KillStep
<1>5. ASSUME NEW a \in Actors, NEW p \in Procs, Kill(a, p) PROVE SafeInv'
  BY <1>5, CallSafe
<1>6. ASSUME NEW a \in Creators, Vcreate(a) \/ CreateStep(a) \/ srpolicy(a) PROVE SafeInv'
  <2>1. a \in Actors
    BY Kinds
  <2> QED BY <1>6, <2>1, CallSafe, DirectorySafe, BornSafe DEF CreateStep
<1>7. ASSUME UNCHANGED vars PROVE SafeInv'
  <2>1. UNCHANGED <<ft, nextframe, pd, pt, proc, bstab, th, fatal>>
    BY <1>7 DEF vars
  <2>2. Backed' /\ DirtyUsed'
    BY <2>1, BackedKept, DirtySame DEF SafeInv, Calmed
  <2>3. NoFatal' /\ BootTables' /\ OneDirectory'
    BY <2>1 DEF SafeInv, Calmed, NoFatal, BootTables, OneDirectory, DirectoryOf
  <2>4. ClockTurns'
    BY <2>1 DEF SafeInv, ClockTurns, Usable, Turns, Rounds, FrameEntry, EntryOf
  <2> QED BY <2>2, <2>3, <2>4 DEF SafeInv, Calmed
<1> QED BY <1>1, <1>2, <1>3, <1>4, <1>5, <1>6, <1>7 DEF Next

\* At boot no heap, no page and no directory of a process exists.
LEMMA InitSafe == Init => SafeInv
<1> SUFFICES ASSUME Init PROVE SafeInv
  OBVIOUS
<1>1. NoFatal
  BY DEF Init, NoFatal
<1>2. Backed
  BY DEF Init, Backed, Live
<1>3. DirtyUsed
  BY DEF Init, DirtyUsed, BitsOK, NoPTE
<1>4. \A f \in Frames : ft.ipt[f] = BootFrame(f)
  BY DEF Init
<1>5. \A f \in Frames : ft.ipt[f].status \in {"PTAB", "PDIR"} => f <= NUM_GLOBAL
  BY <1>4, SizesAssumption DEF BootFrame, Cleared, Frames
<1>6. \A f \in Frames : ft.ipt[f].pid \notin Procs
  <2>1. \A f \in Frames : ft.ipt[f].pid \in {GLOBAL, NULLPROC, NO_PROCESS}
    <3>1. \A f \in Frames : BootFrame(f).pid \in {GLOBAL, NULLPROC, NO_PROCESS}
      <4> SUFFICES ASSUME NEW f \in Frames PROVE BootFrame(f).pid \in {GLOBAL, NULLPROC, NO_PROCESS}
        OBVIOUS
      <4>1. f < NUM_GLOBAL \/ f = NUM_GLOBAL \/ (~(f < NUM_GLOBAL) /\ f # NUM_GLOBAL)
        OBVIOUS
      <4> QED BY <4>1 DEF BootFrame, Cleared
    <3> QED BY <1>4, <3>1
  <2>2. GLOBAL \notin Procs /\ NULLPROC \notin Procs /\ NO_PROCESS \notin Procs
    BY DEF Procs, GLOBAL, NO_PROCESS, NULLPROC
  <2> QED BY <2>1, <2>2
<1>7. BootTables /\ OneDirectory
  BY <1>5, <1>6 DEF BootTables, OneDirectory, DirectoryOf
<1>8. ClockTurns
  BY DEF Init, ClockTurns, Idle
<1> QED BY <1>1, <1>2, <1>3, <1>7, <1>8 DEF SafeInv, Calmed

\* The kernel neither panics nor follows a frame number, a link or a store that is not one,
\* and no slot is given to two processes: when memory has room for the tables of all
\* processes, the policy is changed only when no page is resident, one process at a time
\* calls vcreate, no kill meets a call that works for its victim, and evictFrame does not
\* free the page table that pf_handler has in hand.
THEOREM NeverFatal ==
  ASSUME EnoughFrames, OneCreator, ~KillRaces, ~SwitchWhileLive
  PROVE  Spec /\ [][TableInHandKept]_vars => []NoFatal
<1> DEFINE All == IInv /\ OwnInv /\ Counted /\ TableInv /\ QueueInv /\ SafeInv
<1>1. Init => All
  <2>1. <<>> \in Seq(Frames)
    BY EmptySeq
  <2> QED BY <2>1, InitInv, InitOwn, InitTable, BootQueue, InitSafe DEF QueueInv
<1>2. All /\ [Next]_vars /\ [TableInHandKept]_vars => All'
  <2> SUFFICES ASSUME All, [Next]_vars, [TableInHandKept]_vars PROVE All'
    OBVIOUS
  <2>1. IInv'
    BY StepInv
  <2>2. OwnInv' /\ Counted' /\ TableInv'
    BY <2>1, StepOwn, StepCounted, StepTable
  <2>3. QueueInv'
    BY <2>1, StepRefines
  <2>4. SafeInv'
    BY <2>1, StepSafe
  <2> QED BY <2>1, <2>2, <2>3, <2>4
<1>3. All => NoFatal
  BY DEF SafeInv
<1> QED BY <1>1, <1>2, <1>3, PTL DEF Spec

=============================================================================
