---------------------------- MODULE ResultCodes ----------------------------
(***************************************************************************)
(* The classification of SQLite return codes (sqlite3ffi errmap.rs and    *)
(* err.rs).  Every sqlite3_* call's int result goes through               *)
(* to_return_status: get_rows splits it into a primary row (low byte,      *)
(* looked up in PRIMARYTBL) and, when the second byte is non-zero, an      *)
(* extended row (looked up in EXTENDENDEDTBL); a lookup that finds no row  *)
(* panics.  is_ok and is_err are then read off the primary row.            *)
(*                                                                         *)
(* A row is abstracted to its code: the PrimaryRC / ExtendedRC enum member *)
(* and the commented-out name string say nothing more.  The codes are the  *)
(* values of the bundled SQLite 3.28 header (build.rs: "3280000"), where   *)
(* an extended code is its primary code plus n * 256.                      *)
(***************************************************************************)
EXTENDS Integers, Bitwise

\* The primary codes the coordinator and the statement layer name.
SQLITE_OK         == 0
SQLITE_ERROR      == 1
SQLITE_ABORT      == 4
SQLITE_BUSY       == 5
SQLITE_LOCKED     == 6
SQLITE_READONLY   == 8
SQLITE_IOERR      == 10
SQLITE_CORRUPT    == 11
SQLITE_CANTOPEN   == 14
SQLITE_CONSTRAINT == 19
SQLITE_AUTH       == 23
SQLITE_RANGE      == 25
SQLITE_NOTICE     == 27
SQLITE_WARNING    == 28
SQLITE_ROW        == 100
SQLITE_DONE       == 101

\* The extended codes of the primary code p numbered ns.
ExtCodes(p, ns) == {p + n * 256 : n \in ns}

SQLITE_BUSY_RECOVERY == SQLITE_BUSY + 1 * 256
SQLITE_BUSY_SNAPSHOT == SQLITE_BUSY + 2 * 256
SQLITE_IOERR_LOCK    == SQLITE_IOERR + 15 * 256

\* PRIMARYTBL: SQLITE_OK .. SQLITE_WARNING, SQLITE_ROW, SQLITE_DONE.
PRIMARYTBL == (SQLITE_OK .. SQLITE_WARNING) \cup {SQLITE_ROW, SQLITE_DONE}

\* EXTENDENDEDTBL, one definition per family of rows.
ERROR_ROWS      == ExtCodes(SQLITE_ERROR, 1 .. 3)
IOERR_ROWS      == ExtCodes(SQLITE_IOERR, 1 .. 31)
LOCKED_ROWS     == ExtCodes(SQLITE_LOCKED, 1 .. 2)
BUSY_ROWS       == ExtCodes(SQLITE_BUSY, 1 .. 2)
CANTOPEN_ROWS   == ExtCodes(SQLITE_CANTOPEN, 1 .. 5)
CORRUPT_ROWS    == ExtCodes(SQLITE_CORRUPT, 1 .. 2)
READONLY_ROWS   == ExtCodes(SQLITE_READONLY, 1 .. 6)
ABORT_ROWS      == ExtCodes(SQLITE_ABORT, {2})
CONSTRAINT_ROWS == ExtCodes(SQLITE_CONSTRAINT, 1 .. 10)
NOTICE_ROWS     == ExtCodes(SQLITE_NOTICE, 1 .. 2)
WARNING_ROWS    == ExtCodes(SQLITE_WARNING, {1})
AUTH_ROWS       == ExtCodes(SQLITE_AUTH, {1})
OK_ROWS         == ExtCodes(SQLITE_OK, {1})

EXTENDENDEDTBL ==
  ERROR_ROWS \cup IOERR_ROWS \cup LOCKED_ROWS \cup BUSY_ROWS \cup CANTOPEN_ROWS
  \cup CORRUPT_ROWS \cup READONLY_ROWS \cup ABORT_ROWS \cup CONSTRAINT_ROWS
  \cup NOTICE_ROWS \cup WARNING_ROWS \cup AUTH_ROWS \cup OK_ROWS

\* The outcome of a lookup that found no row (panic!), and Option::None:
\* two negative values, so that no code (a u32) is either.
Panic  == -1
NoRow  == -2

\* Mutant: to_be_bytes()[1] > 0, the second byte from the other end.
is_extended_be(code) == (code \div 65536) % 256 > 0

\* code.to_le_bytes()[1] > 0 and code.to_le_bytes()[0] of a u32.
is_extended(code) == (code \div 256) % 256 > 0
get_primary(code) == code % 256

get_primary_row(c)  == IF c \in PRIMARYTBL THEN c ELSE Panic
get_extended_row(c) == IF c \in EXTENDENDEDTBL THEN c ELSE Panic

get_rows(code) ==
  [primary  |-> get_primary_row(get_primary(code)),
   extended |-> IF is_extended(code) THEN get_extended_row(code) ELSE NoRow]

get_is_error(id) == id \notin {SQLITE_OK, SQLITE_ROW, SQLITE_DONE}

\* The ReturnStatus of a code (err_msg, filled in from the db, left out).
to_return_status(code) ==
  LET r == get_rows(code)
  IN [is_ok    |-> r.primary = SQLITE_OK,
      is_err   |-> get_is_error(r.primary),
      primary  |-> r.primary,
      extended |-> r.extended]

\* A lookup panicked while the status was built.
Panicked(s) == Panic \in {s.primary, s.extended}

-----------------------------------------------------------------------------
(* The reference: sqlite3.h defines every extended code as                 *)
(* (primary | (n << 8)), so (rc & 0xff) is the primary code of any result; *)
(* rc >> 8 is zero exactly for a primary code; and only SQLITE_OK, _ROW    *)
(* and _DONE are not errors.                                               *)

RefPrimary(rc)    == rc & 255
RefIsExtended(rc) == shiftR(rc, 8) # 0
RefIsError(rc)    == RefPrimary(rc) \notin {0, 100, 101}

\* The code rc is decoded by to_return_status without panicking, to the row
\* of its own primary code, with an extended row exactly when it is an
\* extended code, and with is_ok and is_err as sqlite3.h classifies it.
DecodesAsSQLite(rc) ==
  LET s == to_return_status(rc)
  IN /\ ~Panicked(s)
     /\ s.primary = RefPrimary(rc)
     /\ s.extended = IF RefIsExtended(rc) THEN rc ELSE NoRow
     /\ s.is_ok <=> RefPrimary(rc) = SQLITE_OK
     /\ s.is_err <=> RefIsError(rc)

\* Every code SQLite 3.28 can return: each row of both tables.
TablesDecodeAsSQLite == \A rc \in PRIMARYTBL \cup EXTENDENDEDTBL : DecodesAsSQLite(rc)

=============================================================================
