------------------------------ MODULE CacheFile ------------------------------
(***************************************************************************)
(* One file under the cache directory, as utils.storage reads, writes and  *)
(* removes it.  os.WriteFile is not atomic: it opens with O_TRUNC and then *)
(* writes, and anyone may read, write or remove the file in between.       *)
(***************************************************************************)
CONSTANTS
  Nothing,  \* no file, or nothing readable in it
  Torn      \* a file that does not decrypt: empty, cut or overlaid

VARIABLES
  file,     \* what the file holds: a content, Nothing (absent) or Torn
  linked    \* who has the file open for writing, and not unlinked

\* ReadCacheFileWithEncryption and the parsing of what it returns: whatever
\* cannot be read, decrypted or parsed is treated as if it were not there.
Decode(f) == IF f = Torn THEN Nothing ELSE f

\* os.WriteFile, first half: O_CREATE|O_TRUNC.
OpenTruncate(p) ==
  /\ file' = Torn
  /\ linked' = linked \cup {p}

\* os.WriteFile, second half.  A short write, or the bytes of another writer
\* left past the end of this one's, leave a torn file; what is written to a
\* file that was removed meanwhile is lost.
WriteOpen(p, c) ==
  /\ IF p \in linked THEN file' \in {c, Torn} ELSE file' = file
  /\ linked' = linked \ {p}

\* The process dies; the file stays as it is.
Abandon(p) ==
  /\ file' = file
  /\ linked' = linked \ {p}

\* os.Remove: descriptors still open keep the unlinked file.
Remove ==
  /\ file' = Nothing
  /\ linked' = {}
=============================================================================
