------------------------------- MODULE Gnttab -------------------------------
(***************************************************************************)
(* The grant table of the Xen platform (plat/xen/gnttab.c): the list of    *)
(* free entries, the semaphore that counts them, and the flags of an entry *)
(* that the other domain and the hypervisor change at any time.            *)
(*                                                                         *)
(* Threads are cooperative: of several threads only one is inside a call,  *)
(* apart from those that wait for the semaphore.  Handlers interrupt it    *)
(* except where interrupts are off.                                        *)
(***************************************************************************)
EXTENDS Integers, FiniteSets

CONSTANTS Granter,    \* threads that grant pages
          Reserved,   \* GNTTAB_NR_RESERVED_ENTRIES
          Entries     \* NR_GRANT_ENTRIES

ASSUME GnttabAssumption ==
  Reserved \in Nat \ {0} /\ Entries \in Nat /\ Reserved < Entries

VARIABLES gref_list,  \* links of the free entries; element 0 is the head
          sem,        \* count of the semaphore
          flags,      \* of the table's entries
          owned,      \* entries in use, as the guest sees it
          gpc, arg,   \* where a thread is in a call, its entry and the flags it has read
          missed      \* entries whose flags were not those that were read when they were
                      \* exchanged, until they are granted again; read by no action

gntVars == <<gref_list, sem, flags, owned, gpc, arg, missed>>

Gref == Reserved .. Entries - 1
NoArg == [gref |-> 0, flags |-> {}]

\* put_free_entry has been called for all entries.
GntInit ==
  /\ gref_list = [g \in 0..Entries-1 |-> IF g = 0 THEN Entries - 1
                                         ELSE IF g > Reserved THEN g - 1 ELSE 0]
  /\ sem = Entries - Reserved
  /\ flags = [g \in Gref |-> {}]
  /\ owned = {}
  /\ gpc = [t \in Granter |-> "idle"]
  /\ arg = [t \in Granter |-> NoArg]
  /\ missed = {}

Alone(t) == \A o \in Granter \ {t} : gpc[o] = "idle"
Go(t, where) == gpc' = [gpc EXCEPT ![t] = where]

-----------------------------------------------------------------------------
\* get_free_entry.  Bad... are wrong variants of the definitions that follow them.

Down(t) ==
  /\ gpc[t] = "idle" /\ Alone(t) /\ sem > 0
  /\ sem' = sem - 1
  /\ Go(t, "get")
  /\ UNCHANGED <<gref_list, flags, owned, arg, missed>>

\* With interrupts off the first entry is taken from the list.
GetEntry(t) ==
  LET g == gref_list[0]
  IN  /\ gpc[t] = "get"
      /\ g \in Gref
      /\ gref_list' = [gref_list EXCEPT ![0] = gref_list[g]]
      /\ owned' = owned \cup {g}
      /\ arg' = [arg EXCEPT ![t].gref = g]
      /\ Go(t, "grant")
      /\ UNCHANGED <<sem, flags, missed>>

\* grant_access and grant_transfer.
Grant(t, flag) ==
  /\ gpc[t] = "grant"
  /\ flags' = [flags EXCEPT ![arg[t].gref] = {flag}]
  /\ missed' = missed \ {arg[t].gref}
  /\ arg' = [arg EXCEPT ![t] = NoArg]
  /\ Go(t, "idle")
  /\ UNCHANGED <<gref_list, sem, owned>>

-----------------------------------------------------------------------------
\* end_access, update_grant and end_transfer begin by reading the flags.

InUse(f) == "reading" \in f

BeginEnd(t, g, call) ==
  /\ gpc[t] = "idle" /\ Alone(t) /\ g \in owned
  /\ "accept" \in flags[g] <=> call = "transfer"
  /\ call # "transfer" => ~InUse(flags[g])     \* otherwise the call fails
  /\ arg' = [arg EXCEPT ![t] = [gref |-> g, flags |-> flags[g]]]
  /\ Go(t, call)
  /\ UNCHANGED <<gref_list, sem, flags, owned, missed>>

\* The flags are exchanged for 0, if they still are those that were read.
Exchange(a) ==
  /\ flags' = [flags EXCEPT ![a.gref] = IF @ = a.flags THEN {} ELSE @]
  /\ missed' = IF flags[a.gref] = a.flags THEN missed ELSE missed \cup {a.gref}

\* gnttab_reset_flags.  The result of the exchange is 0 if it has stored it and the flags
\* that were read if not: the loop takes the second for success, and after the first it
\* exchanges 0 for 0.
ResetFlags(t) ==
  LET a == arg[t]
  IN  /\ gpc[t] \in {"end", "update"}
      /\ Exchange(a)
      /\ Go(t, IF gpc[t] = "end" THEN "put" ELSE "grant")
      /\ UNCHANGED <<gref_list, sem, owned, arg>>

\* end_transfer: the same exchange, if no transfer has been committed.
EndTransfer(t) ==
  LET a == arg[t]
  IN  /\ gpc[t] = "transfer"
      /\ \/ /\ "committed" \notin a.flags
            /\ Exchange(a)
         \/ /\ "committed" \in a.flags
            /\ "completed" \in flags[a.gref]   \* it spins until then
            /\ UNCHANGED <<flags, missed>>
      /\ Go(t, "put")
      /\ UNCHANGED <<gref_list, sem, owned, arg>>

BadPushed(g) == [gref_list EXCEPT ![0] = g]  \* the entry is not linked to the others
Pushed(g) == [gref_list EXCEPT ![g] = gref_list[0], ![0] = g]

\* put_free_entry: with interrupts off the entry is linked in,
PutEntry(t) ==
  LET g == arg[t].gref
  IN  /\ gpc[t] = "put"
      /\ gref_list' = Pushed(g)
      /\ owned' = owned \ {g}
      /\ Go(t, "up")
      /\ UNCHANGED <<sem, flags, arg, missed>>

\* and then the semaphore raised.
Up(t) ==
  /\ gpc[t] = "up"
  /\ sem' = sem + 1
  /\ arg' = [arg EXCEPT ![t] = NoArg]
  /\ Go(t, "idle")
  /\ UNCHANGED <<gref_list, flags, owned, missed>>

\* end_access in an interrupt handler, of an entry no thread is busy with.  The other
\* domain may map the page between the reading of the flags and their exchange.
HandlerEnd(g) ==
  /\ g \in owned /\ \A t \in Granter : arg[t].gref # g
  /\ "permit" \in flags[g] /\ ~InUse(flags[g])
  /\ \/ flags' = [flags EXCEPT ![g] = {}] /\ UNCHANGED missed
     \/ flags' = [flags EXCEPT ![g] = @ \cup {"reading"}] /\ missed' = missed \cup {g}
  /\ gref_list' = Pushed(g)
  /\ owned' = owned \ {g}
  /\ sem' = sem + 1
  /\ UNCHANGED <<gpc, arg>>

-----------------------------------------------------------------------------
\* The other domain maps and unmaps a page it was granted, and the hypervisor carries out a
\* transfer, at any time.
Peer(g) ==
  /\ \/ "permit" \in flags[g] /\ flags' = [flags EXCEPT ![g] = @ \cup {"reading"}]
     \/ "reading" \in flags[g] /\ flags' = [flags EXCEPT ![g] = @ \ {"reading"}]
     \/ "accept" \in flags[g] /\ flags' = [flags EXCEPT ![g] = @ \cup {"committed"}]
  /\ UNCHANGED <<gref_list, sem, owned, gpc, arg, missed>>

PeerCompletes(g) ==
  /\ "committed" \in flags[g]
  /\ flags' = [flags EXCEPT ![g] = @ \cup {"completed"}]
  /\ UNCHANGED <<gref_list, sem, owned, gpc, arg, missed>>

GntNext ==
  \/ \E t \in Granter :
       \/ Down(t) \/ GetEntry(t) \/ Grant(t, "permit") \/ Grant(t, "accept")
       \/ \E g \in Gref : BeginEnd(t, g, "end") \/ BeginEnd(t, g, "update") \/ BeginEnd(t, g, "transfer")
       \/ ResetFlags(t) \/ EndTransfer(t) \/ PutEntry(t) \/ Up(t)
  \/ \E g \in Gref : HandlerEnd(g) \/ Peer(g) \/ PeerCompletes(g)

GntSpec == GntInit /\ [][GntNext]_gntVars

-----------------------------------------------------------------------------
Flag == {"permit", "reading", "accept", "committed", "completed"}

GntTypeOK ==
  /\ gref_list \in [0..Entries-1 -> {0} \cup Gref]
  /\ sem \in 0..Entries
  /\ flags \in [Gref -> SUBSET Flag]
  /\ owned \subseteq Gref /\ missed \subseteq Gref
  /\ gpc \in [Granter -> {"idle", "get", "grant", "end", "update", "transfer", "put", "up"}]
  /\ arg \in [Granter -> [gref : {0} \cup Gref, flags : SUBSET Flag]]

Unowned == Gref \ owned
InCall(where) == Cardinality({t \in Granter : gpc[t] = where})

\* The list goes from the head through the entries that are not owned, each once, to 0:
\* an entry has a depth of its own, which is one more than that of the entry it is linked
\* to and 0 for the end, and the depth of the first is the number of these entries.
Linked ==
  \E depth \in [{0} \cup Unowned -> 0..Cardinality(Unowned)] :
    /\ depth[0] = 0 /\ \A g, h \in Unowned : depth[g] = depth[h] => g = h
    /\ gref_list[0] \in DOMAIN depth /\ depth[gref_list[0]] = Cardinality(Unowned)
    /\ \A g \in Unowned : gref_list[g] \in DOMAIN depth /\ depth[g] = depth[gref_list[g]] + 1

\* The list holds each entry that is not owned, once, and there are as many as the
\* semaphore counts, but for those a thread has just claimed or just given back.
ListExact == Linked /\ Cardinality(Unowned) = sem + InCall("get") + InCall("up")

\* get_free_entry finds an entry (its assertion), also when handlers give entries back.
GetAssert == \A t \in Granter : gpc[t] = "get" => gref_list[0] \in Gref

\* One thread at a time is inside a call, and owns the entry it is busy with.
OneInside == \A t, o \in Granter : gpc[t] # "idle" /\ gpc[o] # "idle" => t = o
Holding ==
  \A t \in Granter : gpc[t] \in {"grant", "end", "update", "transfer", "put"} => arg[t].gref \in owned

\* List, semaphore and owners agree, whatever the other domain does to the flags.
EntriesInv == GntTypeOK /\ OneInside /\ Holding /\ ListExact

\* Nobody can use an entry with these flags: it is granted to no domain, and a transfer
\* has been carried out if there was one.
Quiet(f) ==
  "permit" \notin f /\ ~InUse(f) /\ (f \cap {"accept", "committed"} # {} => "completed" \in f)

\* An entry that is free, or that a call gives back or grants anew, is not used by the other
\* domain, nor by a transfer under way, unless the flags changed between the reading and
\* the exchange of the call that ended its grant.
NotInUse ==
  /\ \A g \in Unowned \ missed : Quiet(flags[g])
  /\ \A t \in Granter : gpc[t] \in {"put", "grant"} /\ arg[t].gref \notin missed =>
                          Quiet(flags[arg[t].gref])

\* What the code does not keep to: no free entry is in use.
FreeNotInUse == \A g \in Unowned : Quiet(flags[g])

\* An entry is granted for access or for a transfer, and its users keep to that.
Match(f) ==
  /\ "permit" \in f => f \subseteq {"permit", "reading"}
  /\ "reading" \in f => "permit" \in f
  /\ "committed" \in f => "accept" \in f

FlagsMatch == \A g \in Gref : Match(flags[g])

\* The grant table as a whole: list, semaphore and owners agree and the assertion of
\* get_free_entry holds, whatever the other domain does; its flags are those of an access
\* or of a transfer; and an entry is reused under the other domain only if that changed
\* the flags between the two accesses of a call, where the exchange fails unnoticed.
GntInv == EntriesInv /\ GetAssert /\ FlagsMatch /\ NotInUse
=============================================================================
