----------------------------- MODULE UserCopy -----------------------------
(***************************************************************************)
(* copyin, copyout and copyin_str of mem/uvm.rs: the loops that carry bytes *)
(* between the kernel and a process page by page, over any page table that   *)
(* PageTable reaches, against what they are to do byte by byte.              *)
(***************************************************************************)
EXTENDS PageTable, Sequences, FiniteSetsExt

CONSTANTS
  PgSize,    \* PGSIZE, in bytes
  MaxCopy     \* the longest copy: a bound

Page(a) == a \div PgSize              \* align_down
Off(a) == a % PgSize                  \* page_offset

\* The checks on the entry of a page: valid, a leaf, and the user's to read and write.
Checked(r, v) ==
  CASE Translate(r, v).kind # "leaf" -> "NotMapped"
    [] Translate(r, v).kind = "leaf" /\ Translate(r, v).perm # "user" -> "NoPerm"
    [] OTHER -> "ok"

Bytes(r, a, n) == [i \in 1 .. n |-> <<Translate(r, Page(a)).to, Off(a) + i - 1>>]
BugInPage(a, left) == Min({PgSize, left})
InPage(a, left) == Min({PgSize - Off(a), left})

\* copyin and copyout from address a, left bytes to go: the outcome, and the bytes of
\* physical memory touched so far.
RECURSIVE Copy(_, _, _, _)
Copy(r, a, left, done) ==
  LET n == InPage(a, left)
  IN  IF left = 0 THEN <<"ok", done>>
      ELSE IF Checked(r, Page(a)) # "ok" THEN <<Checked(r, Page(a)), done>>
      ELSE Copy(r, a + n, left - n, done \o Bytes(r, a, n))

\* copyin_str when the first NUL at or after a is at address z; it is copied too.
RECURSIVE CopyStr(_, _, _, _, _)
CopyStr(r, a, left, z, done) ==
  LET n == InPage(a, left)
  IN  IF left = 0 THEN <<"TooLong", done>>
      ELSE IF Checked(r, Page(a)) # "ok" THEN <<Checked(r, Page(a)), done>>
      ELSE IF z < a + n THEN <<"ok", done \o Bytes(r, a, z - a + 1)>>
      ELSE CopyStr(r, (Page(a) + 1) * PgSize, left - n, z, done \o Bytes(r, a, n))

-----------------------------------------------------------------------------
\* Byte by byte: the addresses a .. b - 1, up to the first that is not the user's.
Expected(r, a, b, full) ==
  LET bad == {x \in a .. b - 1 : Checked(r, Page(x)) # "ok"}
      end == IF bad = {} THEN b ELSE Min(bad)
  IN  <<IF bad = {} THEN full ELSE Checked(r, Page(end)),
        [i \in 1 .. end - a |-> <<Translate(r, Page(a + i - 1)).to, Off(a + i - 1)>>]>>

\* A copy of any length from any address, VA_MAX included, touches exactly the bytes
\* that the page table maps there, in order and up to the first page that is not the
\* process's own, and says why it stopped; a string stops with its NUL, and is too long
\* only when the whole buffer was filled (mem/uvm.rs).
CopyExact ==
  \A p \in Procs : Runs(p) =>
    \A a \in 0 .. MaxVa * PgSize, len \in 0 .. MaxCopy :
      /\ Copy(root[p], a, len, <<>>) = Expected(root[p], a, a + len, "ok")
      /\ \A z \in a .. a + len :
           CopyStr(root[p], a, len, z, <<>>) =
             IF z < a + len THEN Expected(root[p], a, z + 1, "ok")
             ELSE Expected(root[p], a, a + len, "TooLong")
=============================================================================
