------------------------------ MODULE GuestBudget ------------------------------
(***************************************************************************)
(* What one guest link may write into the audit log, which keeps a bounded *)
(* tail: each act of the guest reserves the rows it can cause before it is *)
(* done, from a budget of the link, and is refused when they do not fit    *)
(* (src/src/guests.ts spendGuestAudit, src/src/guest-api.ts).              *)
(*                                                                         *)
(* A takeover pays for a row written long after it: how its hold ends.     *)
(* Who holds control, and for how long, is abstracted here to what decides *)
(* a row; module Control has it in full.  Left out: guest.link.reused,     *)
(* which whoever has a spent link writes out of an allowance of its own.   *)
(***************************************************************************)
EXTENDS Naturals

CONSTANTS
    Budget,       \* config.guestAuditBudget, 1000 in the code
    MaxStarts     \* bound: starts of the browser under way at once

ASSUME BudgetAssumption == Budget \in Nat /\ MaxStarts \in Nat

VARIABLES
    book,      \* audit_count, audit_exhausted_at, and the rows in the log that name the guest
    seat,      \* who controls; the guest's hold has reached its maximum; its cooldown runs
    grant,     \* the link: fresh, open (exchanged), left, or revoked (expired, swept)
    starting   \* POST /start requests that await the browser

budgetVars == <<book, seat, grant, starting>>

Holders == {"nobody", "guest", "agent", "person"}
Empty == [holder |-> "nobody", ripe |-> FALSE, cooling |-> FALSE]

BudgetInit ==
    /\ book = [spent |-> 0, exhausted |-> FALSE, rows |-> 0]
    /\ seat \in {[Empty EXCEPT !.holder = h] : h \in Holders \ {"guest"}}
    /\ grant = "fresh" /\ starting = 0

BudgetTypeOK ==
    /\ book \in [spent : 0..Budget, exhausted : BOOLEAN, rows : 0..Budget + 2]
    /\ seat \in [holder : Holders, ripe : BOOLEAN, cooling : BOOLEAN]
    /\ grant \in {"fresh", "open", "left", "revoked"} /\ starting \in 0..MaxStarts

---------------------------------------------------------------------------
(* The budget. *)

Fits(b, n) == b.spent + n <= Budget

Wrote(b, n) == [b EXCEPT !.rows = @ + n]

\* spendGuestAudit: the first refusal is a row itself.
Reserved(b, n) ==
    IF Fits(b, n) THEN [b EXCEPT !.spent = @ + n]
    ELSE [Wrote(b, IF b.exhausted THEN 0 ELSE 1) EXCEPT !.exhausted = TRUE]

\* Reserves one row and writes it, or neither.
Recorded(b) == Wrote(Reserved(b, 1), IF Fits(b, 1) THEN 1 ELSE 0)

\* auditGuestDenied: within its rate, or dropped
Denied(b) == {b, Recorded(b)}

\* Mutant: how it ends is not thought of.
TakeoverRowsNow == 2

\* What POST /control reserves: the takeover, a preemption, and how it ends.
TakeoverRows == 3

---------------------------------------------------------------------------
(* Control, as far as it writes. *)

Over(s, g) == s.holder = "guest" /\ (g # "open" \/ s.ripe)
Aged(s, g) == Over(s, g) /\ g = "open"

\* controlState(): a guest's lease that should have ended ends here, with a row for its age alone.
Seen(s, g) ==
    IF Over(s, g) THEN [s EXCEPT !.holder = "nobody", !.cooling = @ \/ Aged(s, g)] ELSE s
SeenRows(s, g) == IF Aged(s, g) THEN 1 ELSE 0

\* Anybody reads who controls the browser.
SomebodyLooks ==
    /\ Over(seat, grant)
    /\ seat' = Seen(seat, grant) /\ book' = Wrote(book, SeenRows(seat, grant))
    /\ UNCHANGED <<grant, starting>>

\* Others take control, which looks first, or release it, which does not; the rows of that name them.
OthersSit(h) ==
    /\ h # "guest" /\ h # seat.holder
    /\ IF h = "nobody" THEN seat' = [seat EXCEPT !.holder = h] /\ book' = book
       ELSE /\ seat' = [Seen(seat, grant) EXCEPT !.holder = h]
            /\ book' = Wrote(book, SeenRows(seat, grant))
    /\ UNCHANGED <<grant, starting>>

\* The lease lapses unnoticed; a hold reaches its maximum; a break or the cooldown is over.
TimePasses ==
    /\ \/ seat.holder = "guest" /\ seat' = [seat EXCEPT !.holder = "nobody"]
       \/ seat.holder = "guest" /\ seat' = [seat EXCEPT !.ripe = TRUE]
       \/ seat.holder # "guest" /\ seat' = [seat EXCEPT !.ripe = FALSE]
       \/ seat' = [seat EXCEPT !.cooling = FALSE]
    /\ UNCHANGED <<book, grant, starting>>

---------------------------------------------------------------------------
(* The guest's acts. *)

SignsIn ==
    /\ grant = "fresh" /\ grant' = "open" /\ book' = Recorded(book)
    /\ UNCHANGED <<seat, starting>>

\* POST /control, up to its budget: refused for the cooldown before anything is reserved
TakeRefused ==
    /\ grant = "open"
    /\ \/ seat.cooling /\ book' \in Denied(book)
       \/ ~seat.cooling /\ ~Fits(book, TakeoverRows) /\ book' = Reserved(book, TakeoverRows)
    /\ UNCHANGED <<seat, grant, starting>>

\* ... and past it.  The old lease, then the new one, is looked at: a hold that was carried on past
\* its maximum ends at once.
TakesControl ==
    LET s == Seen(seat, grant)
        paid == Wrote(Reserved(book, TakeoverRows), SeenRows(seat, grant))
        got == [s EXCEPT !.holder = "guest"]
    IN  /\ grant = "open" /\ ~seat.cooling /\ Fits(book, TakeoverRows)
        /\ IF s.holder = "person" THEN book' \in Denied(paid) /\ seat' = s
           ELSE /\ seat' = Seen(got, grant)
                /\ book' = Wrote(paid, (IF s.holder = "agent" THEN 2 ELSE 1) + SeenRows(got, grant))
        /\ UNCHANGED <<grant, starting>>

\* DELETE /control, or the guest's viewer closed for good
ReturnsControl ==
    LET s == Seen(seat, grant)
    IN  /\ grant = "open" /\ seat.holder = "guest"
        /\ seat' = [s EXCEPT !.holder = "nobody"]
        /\ book' = Wrote(book, SeenRows(seat, grant) + (IF s.holder = "guest" THEN 1 ELSE 0))
        /\ UNCHANGED <<grant, starting>>

\* POST /viewer-ticket
AsksTicket(control) ==
    LET s == Seen(seat, grant)
        read == Wrote(book, SeenRows(seat, grant))
    IN  /\ grant = "open"
        /\ IF control THEN /\ seat' = s
                           /\ book' \in (IF s.holder = "guest" THEN {Recorded(read)} ELSE Denied(read))
           ELSE seat' = seat /\ book' = Recorded(book)
        /\ UNCHANGED <<grant, starting>>

\* POST /start: its row is paid for before the wait, and written after it
StartBegins ==
    /\ grant = "open" /\ starting < MaxStarts
    /\ book' = Reserved(book, 1) /\ starting' = (IF Fits(book, 1) THEN starting + 1 ELSE starting)
    /\ UNCHANGED <<seat, grant>>

\* The browser started, or did not, whatever became of the link.
StartEnds(started) ==
    /\ starting > 0 /\ starting' = starting - 1
    /\ book' = (IF started THEN Wrote(book, 1) ELSE book)
    /\ UNCHANGED <<seat, grant>>

\* Any other path, and a takeover by a link that only watches or by force
AsksElse ==
    /\ grant = "open" /\ book' \in Denied(book)
    /\ UNCHANGED <<seat, grant, starting>>

\* endGuest: the link is revoked, then the lease is read, then the release that reading left undone.
Ends(how) ==
    LET s == Seen(seat, how)
    IN  /\ grant = "open" /\ grant' = how
        /\ seat' = [s EXCEPT !.holder = IF @ = "guest" THEN "nobody" ELSE @]
        /\ book' = (IF how = "left" THEN Wrote(book, (IF s.holder = "guest" THEN 1 ELSE 0) + 1) ELSE book)
        /\ UNCHANGED starting

BudgetNext ==
    \/ SomebodyLooks \/ TimePasses \/ SignsIn \/ TakeRefused \/ TakesControl \/ ReturnsControl
    \/ StartBegins \/ AsksElse
    \/ \E h \in Holders : OthersSit(h)
    \/ \E yes \in BOOLEAN : AsksTicket(yes) \/ StartEnds(yes)
    \/ \E how \in {"left", "revoked"} : Ends(how)

BudgetSpec == BudgetInit /\ [][BudgetNext]_budgetVars

---------------------------------------------------------------------------
(* Properties. *)

\* However a guest's requests, the ends of its holds and its slow starts fall, the log has no more
\* rows of it than its link's budget and two: that the budget is gone, and that it left.  And no act
\* went unpaid for: what was written never passes what was reserved (security.md: "An action reserves
\* its rows before it runs").
RecordsFitBudget ==
    /\ book.spent <= Budget
    /\ book.rows <= book.spent + (IF book.exhausted THEN 1 ELSE 0) + (IF grant = "left" THEN 1 ELSE 0)
=============================================================================
