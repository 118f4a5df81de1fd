\* Two Opened positions at the same pair and price: one index key for both.
CONSTANTS
    Pairs <- MCPairs
    Prices <- MCPrices
    Nonces = {1, 2}
    Amounts = {0, 1}
SPECIFICATION Spec
INVARIANT PriceIndexComplete
