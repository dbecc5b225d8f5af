------------------------------ MODULE MCMessaging ------------------------------
EXTENDS MessagingProps
================================================================================
