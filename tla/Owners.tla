-------------------------------- MODULE Owners --------------------------------
(***************************************************************************)
(* internal/status/pending.go: which of the workloads on a list a pod      *)
(* belongs to.                                                             *)
(*                                                                         *)
(* A name is the sequence of its dash-separated segments, so that "api" is *)
(* a prefix of "api-canary" and not of "apis".  A pod carries its          *)
(* namespace, its name and owner, the name of the workload its owner       *)
(* reference stands for once the hash of a ReplicaSet is trimmed off, or   *)
(* NoOwner.  The kind of the reference is not looked at.                   *)
(***************************************************************************)
EXTENDS Integers, Sequences, SequencesExt

NoOwner == <<>>
Nobodys == 0      \* no index

\* owners: a list of entries [ns, name, idx].  byNS is the part of it that is
\* of the pod's namespace.  The entries that its owner reference names.
Referenced(owners, pod) ==
  {k \in DOMAIN owners : owners[k].ns = pod.ns /\ pod.owner # NoOwner /\ owners[k].name = pod.owner}

\* The entries whose name the pod's name continues.
Continued(owners, pod) ==
  {k \in DOMAIN owners : owners[k].ns = pod.ns /\ IsStrictPrefix(owners[k].name, pod.name)}

\* The first entry that is referenced.
ExactOwner(owners, pod) ==
  LET hits == Referenced(owners, pod)
  IN  IF hits = {} THEN Nobodys
      ELSE owners[CHOOSE k \in hits : \A j \in hits : k <= j].idx

Mut_PrefixOwner(owners, pod) ==                  \* the first match in the list, not the longest
  LET hits == Continued(owners, pod)
  IN  IF hits = {} THEN Nobodys
      ELSE owners[CHOOSE k \in hits : \A j \in hits : k <= j].idx
\* The longest entry that the name continues; the first of equals.
PrefixOwner(owners, pod) ==
  LET hits == Continued(owners, pod)
      Sooner(k, j) == \/ Len(owners[j].name) < Len(owners[k].name)
                      \/ Len(owners[j].name) = Len(owners[k].name) /\ k <= j
  IN  IF hits = {} THEN Nobodys
      ELSE owners[CHOOSE k \in hits : \A j \in hits : Sooner(k, j)].idx

OwnerIndex(owners, pod) ==
  IF ExactOwner(owners, pod) # Nobodys THEN ExactOwner(owners, pod) ELSE PrefixOwner(owners, pod)
=============================================================================
