------------------------------- MODULE Lists -------------------------------
(***************************************************************************)
(* The doubly linked lists of rtservice.h as sequences.  A node is linked  *)
(* in one place at most, so no list holds an element twice.                *)
(***************************************************************************)
EXTENDS Integers, Sequences, SequencesExt

\* rt_list_remove: the list s without t; a node that is in no list stays as it is.
Unlink(s, t) ==
  IF \E i \in DOMAIN s : s[i] = t
  THEN RemoveAt(s, CHOOSE i \in DOMAIN s : s[i] = t) ELSE s
=============================================================================
