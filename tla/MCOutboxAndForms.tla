--------------------------- MODULE MCOutboxAndForms ---------------------------
(* The outbox of mail and the public form, which share no state, on small    *)
(* instances for TLC.  "focus" names the one that moves, the other stays     *)
(* where it starts, and there none of its fair actions is enabled.           *)
EXTENDS MailOutbox, PublicForm

CONSTANTS f1, f2, d1

VARIABLE focus

FormRowsBound == {f1, f2}
DocumentRowsBound == {d1}

\* Forms without a file question, with two submissions; a form with one, with
\* one submission.
PublishedForms ==
    [type : {"enquiry", "application"}, required : {FALSE},
     forms : {{f1, f2}}, documents : {{}}]
        \cup [type : {"application"}, required : BOOLEAN,
              forms : {{f1}}, documents : {{d1}}]

OfficeInit ==
    /\ MailInit /\ FormInit
    /\ \/ focus = "mail" /\ definition.type = "enquiry"
       \/ focus = "form" /\ links = {1}

OfficeNext ==
    /\ UNCHANGED focus
    /\ \/ focus = "mail" /\ MailNext /\ UNCHANGED formVars
       \/ focus = "form" /\ FormNext /\ UNCHANGED mailVars

FairOfficeSpec ==
    /\ OfficeInit /\ [][OfficeNext]_<<focus, mailVars, formVars>>
    /\ MailFairness /\ FormFairness
===============================================================================
