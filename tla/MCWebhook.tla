------------------------------ MODULE MCWebhook ------------------------------
(* Webhook with two URLs, one of them in two overlapping subscriptions.    *)
EXTENDS Webhook

MCSubscriptions ==
    << [url |-> "u1", events |-> {"request_blocked", "captcha_verified", "misspelt"}],
       [url |-> "u2", events |-> {"request_blocked"}],
       [url |-> "u1", events |-> {"captcha_verified"}] >>
=============================================================================
