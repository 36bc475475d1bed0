------------------------------ MODULE Accounts ------------------------------
(***************************************************************************)
(* Registration and profiles (services/user_service.py,                    *)
(* routes/user_routes.py and the dependency of core/auth.py that resolves  *)
(* the caller).  Every query of an account puts the decrypted number into  *)
(* the loaded object, which the commit at the end of the request stores.   *)
(* A phone column is {} or the one value stored: a number with the         *)
(* request that encrypted it, or with 0 when it is plain text.  The        *)
(* username and the other columns of a profile are left out.               *)
(***************************************************************************)
EXTENDS Moderation

\* What a query that left the number as it is stored would return.
Undecrypted(stored) == stored

\* Two ciphertexts of one number differ, and decrypting plain text keeps it.
encrypt_value(number) == {<<n, Self>> : n \in number}
decrypt_value(stored) == {<<s[1], 0>> : s \in stored}

PhoneKey(phone) == IF phone = {} THEN {} ELSE {{"phone"}}

SetPhone(a, phone) ==
    {[w EXCEPT !.key = PhoneKey(phone)] : w \in Edit("users", a, [phone |-> phone])}

NewUser(u, phone) ==
    [id |-> u, is_suspended |-> FALSE, suspended_until |-> None, is_muted |-> FALSE,
     muted_until |-> None, is_shadow_banned |-> FALSE, phone |-> phone]

-----------------------------------------------------------------------------
(* The service.                                                             *)

\* What a query of accounts leaves to the commit at the end of the request.
Loaded(accounts) == UNION {SetPhone(a, decrypt_value(a.phone)) : a \in accounts}

\* The row is flushed with the ciphertext and decrypted before the commit.
create_user_if_not_exists(p, u, number) ==
    LET mine  == {a \in store["users"] : a.id = u}
        phone == decrypt_value(encrypt_value(number))
    IN  IF mine # {} THEN Begin(p, << Loaded(mine) >>)
        ELSE Begin(p, << {[Insert("users", NewUser(u, phone)) EXCEPT
                              !.key = {{"id"}} \cup PhoneKey(phone)]} >>)

\* The refresh comes before the flush; what it returns is decrypted.
update_user(p, a, number) ==
    BeginRefreshed(p, << SetPhone(a, decrypt_value(encrypt_value(number))) >>)

-----------------------------------------------------------------------------
(* Routes.                                                                  *)

Numbers == {{}} \cup {{n} : n \in Phones}

register_user(p) ==
    \E u \in Users, number \in Numbers : create_user_if_not_exists(p, u, number)

update_profile(p) ==
    \E a \in store["users"], number \in Numbers \ {{}} : update_user(p, a, number)

\* get_current_user alone, or with the accounts a list or a search returns.
read_users(p) ==
    \E a \in store["users"], others \in SUBSET store["users"] :
        Begin(p, << Loaded({a} \cup others) >>)

AccountRoutes(p) ==
    \/ register_user(p)
    \/ update_profile(p)
    \/ read_users(p)

-----------------------------------------------------------------------------
(* Properties.                                                              *)

\* A number belongs to one account.  The unique column alone would not see to
\* it, since two ciphertexts of one number differ; it holds because the number
\* that registration encrypts is decrypted in place before the commit, and so
\* stored, and compared, as plain text (user_service.py:29, 65, models/user.py:22).
NumbersUnique ==
    \A a, b \in store["users"] : \A s \in a.phone, r \in b.phone :
        a # b => s[1] # r[1]
=============================================================================
