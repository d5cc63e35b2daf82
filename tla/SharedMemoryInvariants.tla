----------------------- MODULE SharedMemoryInvariants -----------------------
(***************************************************************************)
(* Inductive invariants of SharedMemory, from which the theorems of module *)
(* SharedMemoryProofs follow.                                              *)
(***************************************************************************)
EXTENDS SharedMemory

Text == Seq(1 .. 127)

(* Byte k of the stored string s, and where byte k of slot i lies.         *)
Byte(s, k) == IF k < Len(s) THEN s[k + 1] ELSE NUL
Cell(i, k) == 2 + i * maxsize + k

(* The header is never overwritten, so that every call computes the same   *)
(* addresses; the byte that read() is going to copy was tested to be one   *)
(* of the slot.                                                            *)
CallsInSlot ==
  /\ TypeOK
  /\ seg[0] = size /\ seg[1] = maxsize
  /\ \A p \in Users :
       /\ pc[p] = "copy" => j[p] < maxsize
       /\ pc[p] = "write" => p \in Writers /\ str[p] \in Strings[pos[p]]

(* What the history says of a write: it is in progress under one process,  *)
(* or over, and then later ones may be under way.                          *)
Record == [str : Text, open : SUBSET Users, under : SUBSET Users]
Fresh(s, p) == [str |-> s, open |-> {p}, under |-> {}]
Aside(w, p) == IF w.open = {} THEN [w EXCEPT !.under = @ \cup {p}] ELSE w
Closed(w, p) == [w EXCEPT !.open = @ \ {p}]
Abandoned(w, p) == [w EXCEPT !.open = @ \ {p}, !.under = @ \ {p}]

(* The history names every write in progress, and every string that a slot *)
(* may still hold is a candidate of every read() of it.                    *)
HistoryKept ==
  /\ latest \in [Slots -> SUBSET Record]
  /\ candidates \in [Users -> SUBSET Text]
  /\ \A i \in Slots : \A w \in latest[i] :
       w.str \in Known(i) /\ (w.open # {} => w.under = {})
  /\ \A p \in Users :
       /\ pc[p] = "write" => Fresh(Fitting(str[p]), p) \in latest[pos[p]]
       /\ pc[p] \in {"read", "copy"} =>
            /\ {w.str : w \in latest[pos[p]]} \subseteq candidates[p]
            /\ candidates[p] \subseteq Known(pos[p])

(* However many strings a slot may be given, it was given finitely many.   *)
FiniteHistory ==
  /\ \A i \in Slots : IsFiniteSet(latest[i])
  /\ \A p \in Users : IsFiniteSet(candidates[p])

(* Some write not replaced yet accounts for each byte of a slot: its       *)
(* string has this byte, or is too short to reach it.  No writer that has  *)
(* already passed the byte replaces it.                                    *)
Accounts(w, i, k) ==
  /\ \A p \in Users : pc[p] = "write" /\ pos[p] = i /\ k < j[p] => p \notin w.under
  /\ k <= Len(w.str) => seg[Cell(i, k)] = Byte(w.str, k)

BytesAccountedFor ==
  \A i \in Slots : \A k \in 0 .. maxsize - 1 : \E w \in latest[i] : Accounts(w, i, k)

(* A read() that met one string only has copied the beginning of it.       *)
OneStringSoFar ==
  \A p \in Users : \A s \in candidates[p] : candidates[p] = {s} =>
    /\ pc[p] \in {"read", "copy"} =>
         /\ Len(str[p]) = j[p]
         /\ j[p] <= Len(s)
         /\ \A i \in 1 .. j[p] : str[p][i] = s[i]
    /\ pc[p] = "copy" => j[p] < Len(s)
    /\ pc[p] = "returned" => str[p] = s

(* The strings of a slot differ in their first characters, as the token    *)
(* "true" or "false" and the counts of one digit of the producers and      *)
(* consumers do.                                                           *)
FirstCharacterTells ==
  \A i \in Slots : \A s, t \in Known(i) :
    s # << >> /\ t # << >> /\ s[1] = t[1] => s = t

(* The first character copied by a read(), or the lack of one, is that of  *)
(* a candidate.                                                            *)
FirstByteOffered ==
  \A p \in Users :
    /\ pc[p] \in {"read", "copy"} =>
         /\ Len(str[p]) = j[p]
         /\ j[p] > 0 => \E s \in candidates[p] : str[p][1] = Byte(s, 0)
    /\ pc[p] = "returned" =>
         /\ candidates[p] \subseteq Known(pos[p])
         /\ str[p] = << >> => << >> \in candidates[p]
         /\ str[p] # << >> => \E s \in candidates[p] : s # << >> /\ str[p][1] = s[1]

(* A slot of one character holds nothing behind it.                        *)
ShortSlots ==
  /\ \A i \in Slots : OneCharacter(i) => \A k \in 1 .. maxsize - 1 : seg[Cell(i, k)] = NUL
  /\ \A p \in Users : OneCharacter(pos[p]) =>
       /\ pc[p] = "read" => j[p] <= 1
       /\ pc[p] = "copy" => j[p] = 0
       /\ pc[p] = "returned" => Len(str[p]) <= 1
=============================================================================
