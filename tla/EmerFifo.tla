------------------------------ MODULE EmerFifo ------------------------------
(* What src/daemon/emer-circular-file.c promises, without its bytes: a FIFO   *)
(* of elements that is bounded, that keeps what was saved over restarts, and  *)
(* that hands out tokens with which the elements that were read are removed.  *)
(*                                                                            *)
(* An element is <<id, length>>; on disk it also costs HeaderCells for its    *)
(* length.  An element of id 0 has lost its contents in a power loss.         *)
EXTENDS Integers, Sequences, FiniteSetsExt

CONSTANTS HeaderCells,    \* what the length of an element costs
          Limits,         \* the maximum sizes the file is opened with
          Elements        \* the elements that are appended

VARIABLES status,         \* "closed", "opening", "cut" or "open"
          limit,          \* the maximum size, while open
          saved,          \* the elements that can be read
          pending,        \* the elements appended and not saved yet
          read,           \* the elements the outstanding token stands for
          tainted         \* a power loss has left invalid data behind saved

vars == <<status, limit, saved, pending, read, tainted>>

Cost(elems)   == SumFunction([i \in DOMAIN elems |-> HeaderCells + elems[i][2]])
Length(elems) == SumFunction([i \in DOMAIN elems |-> elems[i][2]])

(* The longest prefixes that cost at most n, and that hold at most n.         *)
Fitting(elems, n) ==
  SubSeq(elems, 1, Max({k \in 0..Len(elems) : Cost(SubSeq(elems, 1, k)) <= n}))
Holding(elems, n) ==
  SubSeq(elems, 1, Max({k \in 0..Len(elems) : Length(SubSeq(elems, 1, k)) <= n}))

Init ==
  /\ status = "closed" /\ limit = 0
  /\ saved = << >> /\ pending = << >> /\ read = << >> /\ tainted = FALSE

Open ==
  /\ status = "closed" /\ status' \in {"opening", "open"}
  /\ limit' \in Limits
  /\ UNCHANGED <<saved, pending, read, tainted>>

(* The limit is not the one of before: what does not fit is cut off.          *)
Cut ==
  /\ status = "opening" /\ status' = "cut"
  /\ saved' = Fitting(saved, limit)
  /\ tainted' \in {tainted, FALSE}
  /\ UNCHANGED <<limit, pending, read>>

Opened ==
  /\ status = "cut" /\ status' = "open"
  /\ UNCHANGED <<limit, saved, pending, read, tainted>>

(* The process ends, or cannot open the file: what is not saved is lost, and  *)
(* everything is while it is being cut.                                       *)
Close ==
  /\ status # "closed" /\ status' = "closed"
  /\ IF status = "cut" THEN saved' = << >> /\ tainted' = FALSE
                       ELSE UNCHANGED <<saved, tainted>>
  /\ limit' = 0
  /\ pending' = << >> /\ read' = << >>

(* What was saved last has not reached the disk: it ends up zeroed.           *)
PowerLoss ==
  /\ \E k \in 0..Len(saved) :
       \/ saved' = SubSeq(saved, 1, k)
       \/ k > 0 /\ saved' = [SubSeq(saved, 1, k) EXCEPT ![k] = <<0, saved[k][2]>>]
  /\ tainted' \in BOOLEAN
  /\ status' = "closed" /\ limit' = 0
  /\ pending' = << >> /\ read' = << >>

AppendElement(e) ==
  /\ status = "open"
  /\ Cost(saved) + Cost(pending) + Cost(<<e>>) <= limit
  /\ pending' = Append(pending, e)
  /\ UNCHANGED <<status, limit, saved, read, tainted>>

(* What is saved behind invalid data cannot be read: it is dropped with it.   *)
Save ==
  /\ status = "open"
  /\ saved' = IF tainted THEN saved ELSE saved \o pending
  /\ pending' = << >>
  /\ UNCHANGED <<status, limit, read, tainted>>

Read ==
  /\ status = "open"
  /\ \E n \in 0..limit : read' = Holding(saved, n)
  /\ \/ UNCHANGED tainted
     \/ read' = saved /\ tainted' = FALSE
  /\ UNCHANGED <<status, limit, saved, pending>>

RemoveRead ==
  /\ status = "open"
  /\ saved' = SubSeq(saved, Len(read) + 1, Len(saved))
  /\ read' = << >>
  /\ UNCHANGED <<status, limit, pending, tainted>>

Purge ==
  /\ status = "open"
  /\ saved' = << >> /\ read' = << >> /\ tainted' = FALSE
  /\ UNCHANGED <<status, limit, pending>>

Next ==
  \/ Open \/ Cut \/ Opened \/ Close \/ PowerLoss
  \/ Save \/ Read \/ RemoveRead \/ Purge
  \/ \E e \in Elements : AppendElement(e)

Spec == Init /\ [][Next]_vars
=============================================================================
