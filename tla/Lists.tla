------------------------------- MODULE Lists -------------------------------
(***************************************************************************)
(* The lists of the MQTT client (utils_list.c) as sequences: list_rpush is *)
(* Append; list_remove, called for one node after another while the list   *)
(* is walked, leaves the others in their order.                            *)
(***************************************************************************)
EXTENDS Naturals, Sequences

\* The nodes of list at the positions in keep.
Kept(list, keep) ==
  LET upto[k \in 0 .. Len(list)] ==
        IF k = 0 THEN <<>>
        ELSE IF k \in keep THEN Append(upto[k - 1], list[k]) ELSE upto[k - 1]
  IN  upto[Len(list)]

\* Sequences one behind the other.
Joined(parts) ==
  LET upto[k \in 0 .. Len(parts)] == IF k = 0 THEN <<>> ELSE upto[k - 1] \o parts[k]
  IN  upto[Len(parts)]
=============================================================================
