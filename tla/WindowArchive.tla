--------------------------- MODULE WindowArchive ---------------------------
(***************************************************************************)
(* What the audit archive promises its readers, with the export protocol   *)
(* left out.  A window is one hour of one (stream, tenant); its entry      *)
(* appears in one step, complete, and never changes afterwards.  An entry  *)
(* holds the archived data, the manifest describing it and the manifest    *)
(* that the signature was made over.  A manifest names the digest of the   *)
(* manifest of the preceding hour, or NoDigest.                            *)
(***************************************************************************)
EXTENDS Integers

CONSTANTS Windows,    \* records with at least a field hour
          None        \* "no such entry"

VARIABLE archive      \* [Windows -> entry or None]

\* The empty previous_manifest_sha256.
NoDigest == 0

\* Two manifests of one window never carry the same created_at, which
\* therefore stands for the digest of the manifest's bytes.
Digest(m) == m.createdAt

Manifests == [data : Nat, createdAt : Nat \ {NoDigest}, prev : Nat]

Entries == [data : Nat, manifest : Manifests, signed : Manifests]

\* The window one hour earlier in the same stream and tenant.
Before(w) == [w EXCEPT !.hour = @ - 1]

Published(w) == w \in Windows /\ archive[w] # None

Init == archive = [w \in Windows |-> None]

\* The entry appears whole: the data is the data the manifest describes, the
\* signature is over that manifest, and a link, if there is one, leads to the
\* entry of the preceding hour.
Publish(w) ==
  LET e == archive'[w] IN
  /\ archive[w] = None
  /\ e \in Entries
  /\ e.manifest.data = e.data
  /\ e.signed = e.manifest
  /\ \/ e.manifest.prev = NoDigest
     \/ /\ Published(Before(w))
        /\ e.manifest.prev = Digest(archive[Before(w)].manifest)
  /\ archive' = [archive EXCEPT ![w] = e]

Next == \E w \in Windows : Publish(w)

Spec == Init /\ [][Next]_archive
=============================================================================
