------------------------------- MODULE WinInit -------------------------------
(***************************************************************************)
(* C/listing-network-adapters-windows/win_init.c: asks Windows for the list *)
(* of network adapters and prints it.  The list may need a larger buffer    *)
(* than the one offered, and may grow between two calls.                   *)
(***************************************************************************)
EXTENDS Naturals, Sequences

CONSTANTS
    FirstSize,    \* bytes of the first buffer (20000), in units of an adapter
    MaxAdapters   \* adapters there may be: a bound of the model

VARIABLES
    win,        \* "off", "allocate", "call", "while", "print", "finished", "failed"
    asize,      \* the size for the next buffer
    adapters,   \* what the pointer is: "null", "filled", "empty", "freed"
    present,    \* the adapters of the computer
    listed,     \* how many of the list in the buffer are printed
    found,      \* how many the last successful call has found
    wsa         \* Winsock is started

winVars == <<win, asize, adapters, present, listed, found, wsa>>

WinInitInit ==
    /\ win = "off" /\ asize = FirstSize /\ adapters = "null"
    /\ present \in 0 .. MaxAdapters
    /\ listed = 0 /\ found = 0 /\ wsa = FALSE

WSAStartup ==
    /\ win = "off"
    /\ \/ win' = "allocate" /\ wsa' = TRUE
       \/ win' = "failed" /\ UNCHANGED wsa
    /\ UNCHANGED <<asize, adapters, present, listed, found>>

Allocate ==
    /\ win = "allocate"
    /\ \/ win' = "call" /\ adapters' = "empty" /\ UNCHANGED wsa
       \/ win' = "failed" /\ adapters' = "null" /\ wsa' = FALSE
    /\ UNCHANGED <<asize, present, listed, found>>

\* GetAdaptersAddresses() fills the buffer, or says how large it must be, upon which
\* it is freed; any other error ends the program.
GetAdaptersAddresses ==
    /\ win = "call"
    /\ \/ /\ present <= asize
          /\ adapters' = "filled" /\ found' = present /\ win' = "print"
          /\ UNCHANGED <<asize, wsa>>
       \/ /\ present > asize
          /\ asize' = present /\ adapters' = "freed" /\ win' = "while"
          /\ UNCHANGED <<found, wsa>>
       \/ /\ adapters' = "freed" /\ win' = "failed" /\ wsa' = FALSE
          /\ UNCHANGED <<asize, found>>
    /\ UNCHANGED <<present, listed>>

\* while(!adapters): free() has not made the pointer null.
WhileNoAdapters ==
    /\ win = "while"
    /\ win' = IF adapters = "null" THEN "allocate" ELSE "print"
    /\ UNCHANGED <<asize, adapters, present, listed, found, wsa>>

\* The list is walked; in memory that is freed it may be of any length.
PrintAdapters ==
    /\ win = "print"
    /\ \/ /\ listed < IF adapters = "filled" THEN found ELSE MaxAdapters
          /\ listed' = listed + 1
          /\ UNCHANGED <<win, adapters, wsa>>
       \/ /\ adapters = "filled" => listed = found
          /\ win' = "finished" /\ adapters' = "freed" /\ wsa' = FALSE
          /\ UNCHANGED listed
    /\ UNCHANGED <<asize, present, found>>

\* An adapter is plugged in or out.
AdaptersChange ==
    /\ win \in {"allocate", "call", "while"}
    /\ present' \in 0 .. MaxAdapters
    /\ UNCHANGED <<win, asize, adapters, listed, found, wsa>>

WinInitNext ==
    WSAStartup \/ Allocate \/ GetAdaptersAddresses \/ WhileNoAdapters \/ PrintAdapters \/ AdaptersChange

WinInitSpec == WinInitInit /\ [][WinInitNext]_winVars

\* A buffer that was too small is freed and the call tried again with a larger one:
\* the list that is walked and printed is always one the call has filled.
RetriesWithLargerBuffer == win = "print" => adapters = "filled"
=============================================================================
