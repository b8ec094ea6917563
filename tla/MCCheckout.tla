------------------------------ MODULE MCCheckout ------------------------------
EXTENDS CheckoutChain
===============================================================================
