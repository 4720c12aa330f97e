--------------------------------- MODULE Books ----------------------------------
(***************************************************************************)
(* The landlord's books: the contribution funds, the rent with its tax,    *)
(* and the pages that report who owes what.  FundPool, RentBook and        *)
(* Standing side by side: they share no row that a property of theirs      *)
(* tells apart, so each behaviour is one of them and the others stay as    *)
(* they start.                                                             *)
(***************************************************************************)
EXTENDS FundPool

CONSTANTS
    Parts,         \* the modules to choose from
    \* of RentBook
    Contracts, Kinds, Received, RentAmounts, Threshold, LowRate, HighRate,
    MaxEntries, RentWrites, MaxDues,
    \* of Standing
    Rooms, FirstDays, LastDays, Prices, PayDays, Receipts, PageAmounts, RentalStarts,
    Back, SoonDays, WarnDays, TaxDay, PageWrites,
    \* of both
    YearLength, LastMonth, Billings

VARIABLES
    part,                                                            \* which of them
    ledger, dues, visit, lastEntry, lastDue, writes,                 \* of RentBook
    today, utc, rental, contracts, bills, records, taxed, serial     \* of Standing

R == INSTANCE RentBook WITH Amounts <- RentAmounts, MaxWrites <- RentWrites,
        entries <- ledger, request <- visit
S == INSTANCE Standing WITH Starts <- FirstDays, Ends <- LastDays,
        Amounts <- PageAmounts, MaxWrites <- PageWrites,
        entries <- records, dues <- taxed, last <- serial

ASSUME RentAssumption == R!CalendarAssumption /\ R!AmountsAssumption

ASSUME PagesAssumption == S!StandingAssumption

rent == <<ledger, dues, visit, lastEntry, lastDue, writes>>
pages == <<today, utc, rental, contracts, bills, records, taxed, serial>>
books == <<part, vars, rent, pages>>

BooksInit == part \in Parts /\ Init /\ R!Init /\ S!Init

BooksNext ==
    \/ part = "funds" /\ Next /\ UNCHANGED <<part, rent, pages>>
    \/ part = "rent" /\ R!Next /\ UNCHANGED <<part, vars, pages>>
    \/ part = "pages" /\ S!Next /\ UNCHANGED <<part, vars, rent>>

BooksSpec == BooksInit /\ [][BooksNext]_books

-----------------------------------------------------------------------------
(* The properties of RentBook and Standing *)

\* The rows of the rent's ledger are well typed, and the payments recorded for a year's
\* months add up to the tax of the year.
RentInv == R!RentInv

\* The pages about arrears, records, bills and rooms agree.
PagesAgree == S!PagesAgree

\* The pages that add up agree.
SumsAgree == S!SumsAgree

\* A rent in arrears stays there until it is paid, its contract changes or time moves on.
DebtStands == S!DebtStands

\* arrears, its comment on rent: each overdue rent links to its month of the records.
ArrearsAreListed == S!ArrearsAreListed

\* dashboard, its comment on the income of the completed month: it is the records' own.
HeadlineIsRecorded == S!HeadlineIsRecorded
=============================================================================
