\* Openings and closings of positions that share a pair and a price.
CONSTANTS
    Pairs <- MCPairs
    Prices <- MCPrices
    Nonces = {1, 2}
    Amounts = {0, 1}
SPECIFICATION Spec
INVARIANT PriceIndexSound
