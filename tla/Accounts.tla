------------------------------- MODULE Accounts -------------------------------
(***************************************************************************)
(* Accounts and the wallets they create                                    *)
(* (src/app/api/auth/register/route.ts, src/lib/auth/store.ts,             *)
(* src/app/api/create-wallet/route.ts and                                  *)
(* src/services/wallet-ownership.service.ts), as in production: accounts   *)
(* and ownership are rows of PostgreSQL, wallets are rows of CockroachDB.  *)
(* A call of a database may throw before or after it took effect, and the  *)
(* process may die between any two.                                        *)
(***************************************************************************)
CONSTANTS
    Signups,    \* requests that register an account, which has their name
    Usernames,  \* names, as they are normalised
    Emails,     \* addresses, as they are normalised
    Creations,  \* requests that create a wallet, which has their name
    Seeds       \* mnemonics a wallet may be derived from

VARIABLES
    accounts,    \* rows of User
    form,        \* name and email of a registration
    signupAt,    \* where each registration is
    wallets,     \* rows of Wallet, with their address and default policy
    owners,      \* rows of UserWallet
    order,       \* account and seed of a creation
    creationAt,  \* where each creation is
    hit          \* history: creations that an error hit which nothing undoes

signupVars == <<accounts, form, signupAt>>

creationVars == <<wallets, owners, order, creationAt, hit>>

accountsVars == <<signupVars, creationVars>>

NoEmail == "no email"

Forms == [name: Usernames, email: Emails \cup {NoEmail}]

AccountsInit ==
    /\ accounts = {}
    /\ form \in [Signups -> Forms]
    /\ signupAt = [s \in Signups |-> "username"]
    /\ wallets = {} /\ owners = {}
    /\ order = [c \in Creations |-> "none"]
    /\ creationAt = [c \in Creations |-> "start"]
    /\ hit = {}

---------------------------------------------------------------------------
(***************************************************************************)
(* Registration                                                            *)
(***************************************************************************)
SignupGoto(s, steps) == \E step \in steps : signupAt' = [signupAt EXCEPT ![s] = step]

\* findUserByUsername
FindUsername(s) ==
    LET taken == \E a \in accounts : a.name = form[s].name
        next  == IF form[s].email = NoEmail THEN "create" ELSE "email"
    IN
    /\ signupAt[s] = "username"
    /\ SignupGoto(s, {"over"} \cup (IF taken THEN {} ELSE {next}))
    /\ UNCHANGED <<accounts, form, creationVars>>

\* findUserByEmail
FindEmail(s) ==
    LET taken == \E a \in accounts : a.email = form[s].email IN
    /\ signupAt[s] = "email"
    /\ SignupGoto(s, {"over"} \cup (IF taken THEN {} ELSE {"create"}))
    /\ UNCHANGED <<accounts, form, creationVars>>

\* createUser.  Of the two only the email has a unique index.
CreateUser(s) ==
    LET collides == form[s].email # NoEmail /\ \E a \in accounts : a.email = form[s].email IN
    /\ signupAt[s] = "create"
    /\ \/ ~collides
          /\ accounts' = accounts \cup {[id |-> s, name |-> form[s].name, email |-> form[s].email]}
       \/ accounts' = accounts
    /\ SignupGoto(s, {"over"})
    /\ UNCHANGED <<form, creationVars>>

---------------------------------------------------------------------------
(***************************************************************************)
(* Creating a wallet                                                       *)
(***************************************************************************)
CreationGoto(c, step) == creationAt' = [creationAt EXCEPT ![c] = step]

Seed(w) == order[w].seed

\* The account of the session, and the mnemonic that was given or generated.
StartCreation(c) ==
    /\ creationAt[c] = "start"
    /\ \E a \in accounts, seed \in Seeds : order' = [order EXCEPT ![c] = [account |-> a.id, seed |-> seed]]
    /\ CreationGoto(c, "persist")
    /\ UNCHANGED <<signupVars, wallets, owners, hit>>

\* createWalletRecord, in one transaction; accountRef is unique.  An error ends the
\* request, also when the wallet is there.
PersistWallet(c) ==
    LET collides == \E w \in wallets : Seed(w) = Seed(c) IN
    /\ creationAt[c] = "persist"
    /\ \/ /\ ~collides /\ wallets' = wallets \cup {c}
          /\ \/ CreationGoto(c, "link") /\ hit' = hit
             \/ CreationGoto(c, "refused") /\ hit' = hit \cup {c}
       \/ CreationGoto(c, "refused") /\ UNCHANGED <<wallets, hit>>
    /\ UNCHANGED <<signupVars, owners, order>>

\* linkWalletToUser
LinkWallet(c) ==
    LET row == <<order[c].account, c>> IN
    /\ creationAt[c] = "link"
    /\ \/ owners' = owners \cup {row} /\ CreationGoto(c, "created")
       \/ owners' \in {owners, owners \cup {row}} /\ CreationGoto(c, "cleanup")
    /\ UNCHANGED <<signupVars, wallets, order, hit>>

\* Mutant: the wallet whose ownership is missing is kept.
CleanUpNothing(c) ==
    /\ creationAt[c] = "cleanup"
    /\ CreationGoto(c, "refused")
    /\ UNCHANGED <<signupVars, wallets, owners, order, hit>>

\* deleteWalletRecord; an error is logged.
CleanUp(c) ==
    /\ creationAt[c] = "cleanup"
    /\ \/ wallets' = wallets \ {c} /\ hit' = hit
       \/ wallets' = wallets /\ hit' = hit \cup {c}
    /\ CreationGoto(c, "refused")
    /\ UNCHANGED <<signupVars, owners, order>>

\* The process dies.
CreationDies(c) ==
    /\ creationAt[c] \in {"persist", "link", "cleanup"}
    /\ CreationGoto(c, "refused")
    /\ hit' = hit \cup {c}
    /\ UNCHANGED <<signupVars, wallets, owners, order>>

AccountsNext ==
    \/ \E s \in Signups : FindUsername(s) \/ FindEmail(s) \/ CreateUser(s)
    \/ \E c \in Creations : \/ StartCreation(c) \/ PersistWallet(c) \/ LinkWallet(c)
                            \/ CleanUp(c) \/ CreationDies(c)

AccountsSpec == AccountsInit /\ [][AccountsNext]_accountsVars

---------------------------------------------------------------------------
\* What the two databases say of a creation that has been answered agrees with the
\* answer: a wallet that was created has an owner, who is an account, and keeps
\* both; one that was refused is gone, so that the same mnemonic may be used again.
\* It is asked of the requests whose process lived and whose wallet could be
\* deleted (postCreateWallet); for the others nothing repairs the difference.
AnswerIsKept ==
    \A c \in Creations :
        /\ creationAt[c] = "created" => /\ c \in wallets
                                        /\ \E a \in accounts : <<a.id, c>> \in owners
        /\ creationAt[c] = "refused" /\ c \in wallets => c \in hit

\* "Username already exists" (src/app/api/auth/register/route.ts:195 and its test): no
\* two accounts have one name, by which findUserByIdentifier also looks for the
\* account that logs in.
UsernamesAreUnique == \A a, b \in accounts : a.name = b.name => a = b
=============================================================================
