--------------------------- MODULE Phase3JournalPort ---------------------------
(***************************************************************************)
(* What the journal port promises for one transaction: records are appended *)
(* one at a time, each to the record its caller expected to be the newest;  *)
(* a record reported as committed is never lost, and one reported as not    *)
(* written never appears.  A power failure may take back what was reported  *)
(* neither way.                                                             *)
(***************************************************************************)
EXTENDS Naturals, SequencesExt

VARIABLES
  chain,     \* the records, oldest first; [id, expected]
  acked,     \* the ids of the records reported as committed
  refused    \* the ids of the records reported as not written

portVars == <<chain, acked, refused>>

Ids(s) == {s[i].id : i \in DOMAIN s}
NewestId(s) == IF s = <<>> THEN 0 ELSE s[Len(s)].id

PortInit == chain = <<>> /\ acked = {} /\ refused = {}

Commit ==
  /\ \E r \in {chain'[i] : i \in DOMAIN chain'} :
       /\ chain' = Append(chain, r)
       /\ r.id \notin Ids(chain) \union refused
       /\ r.expected = NewestId(chain)
  /\ UNCHANGED <<acked, refused>>

Acknowledge ==
  /\ \E id \in Ids(chain) \ refused : acked' = acked \union {id}
  /\ UNCHANGED <<chain, refused>>

Deny ==
  /\ refused \subseteq refused'
  /\ refused' \intersect Ids(chain) = {}
  /\ UNCHANGED <<chain, acked>>

Lose ==
  /\ IsPrefix(chain', chain)
  /\ acked \subseteq Ids(chain')
  /\ UNCHANGED <<acked, refused>>

PortNext == Commit \/ Acknowledge \/ Deny \/ Lose
PortSpec == PortInit /\ [][PortNext]_portVars
===============================================================================
